---- MODULE Spec2Model ----
(***************************************************************************)
(* ts-explicit-errors: CtxError, err, errWithCtx, isErr and attempt.       *)
(*                                                                         *)
(* JavaScript values are tagged records, strings are sequences of          *)
(* one-character strings, and Error objects live in a heap (a sequence of  *)
(* records; an object's identity is its index).                            *)
(***************************************************************************)
EXTENDS Integers, Sequences, FiniteSets, TLC

VARIABLES heap, promises, last, fm, store

vars == <<heap, promises, last, fm, store>>

\* Bounds of the model.
MaxObjs == 3
MaxPromises == 1
MaxLinks == 2
MaxItems == 3
MaxMaps == 5

-----------------------------------------------------------------------------
\* Strings.

S_Arrow == <<" ", "-", ">", " ">>
S_UnknownError == <<"U", "n", "k", "n", "o", "w", "n", " ", "e", "r", "r", "o", "r">>
S_Error == <<"E", "r", "r", "o", "r">>
S_CtxError == <<"C", "t", "x", "E", "r", "r", "o", "r">>
S_CustomError == <<"C", "u", "s", "t", "o", "m", "E", "r", "r", "o", "r">>
S_TypeError == <<"T", "y", "p", "e", "E", "r", "r", "o", "r">>
S_ColonSpace == <<":", " ">>
S_null == <<"n", "u", "l", "l">>
S_undefined == <<"u", "n", "d", "e", "f", "i", "n", "e", "d">>
S_true == <<"t", "r", "u", "e">>
S_false == <<"f", "a", "l", "s", "e">>
S_stringError == <<"s", "t", "r", "i", "n", "g", " ", "e", "r", "r", "o", "r">>

\* White space as String.prototype.trim() sees it.
IsWhiteSpace(c) == c \in {" ", "\t", "\n", "\r"}

RECURSIVE TrimStart(_)
TrimStart(s) ==
  IF s = <<>> THEN <<>>
  ELSE IF IsWhiteSpace(Head(s)) THEN TrimStart(Tail(s)) ELSE s

RECURSIVE TrimEnd(_)
TrimEnd(s) ==
  IF s = <<>> THEN <<>>
  ELSE IF IsWhiteSpace(s[Len(s)]) THEN TrimEnd(SubSeq(s, 1, Len(s) - 1)) ELSE s

\* String.prototype.trim()
Trim(s) == TrimEnd(TrimStart(s))

\* Array.prototype.join(sep) on an array of strings
RECURSIVE Join(_, _)
Join(segs, sep) ==
  IF segs = <<>> THEN <<>>
  ELSE IF Len(segs) = 1 THEN segs[1]
  ELSE segs[1] \o sep \o Join(Tail(segs), sep)

\* Array.prototype.filter(Boolean) on an array of strings: drops the empty ones
RECURSIVE FilterNonEmpty(_)
FilterNonEmpty(segs) ==
  IF segs = <<>> THEN <<>>
  ELSE IF Head(segs) = <<>> THEN FilterNonEmpty(Tail(segs))
  ELSE <<Head(segs)>> \o FilterNonEmpty(Tail(segs))

MapTrim(segs) == [i \in 1..Len(segs) |-> Trim(segs[i])]

DigitChar(d) ==
  CASE d = 0 -> "0" [] d = 1 -> "1" [] d = 2 -> "2" [] d = 3 -> "3" [] d = 4 -> "4"
    [] d = 5 -> "5" [] d = 6 -> "6" [] d = 7 -> "7" [] d = 8 -> "8" [] d = 9 -> "9"

RECURSIVE NatToString(_)
NatToString(n) ==
  IF n < 10 THEN <<DigitChar(n)>> ELSE NatToString(n \div 10) \o <<DigitChar(n % 10)>>

-----------------------------------------------------------------------------
\* Values. t is the tag; s carries a string, n a number, a boolean (0/1), a
\* heap index ("ref") or a promise index ("promise").

Undefined == [t |-> "undefined", s |-> <<>>, n |-> 0]
Null == [t |-> "null", s |-> <<>>, n |-> 0]
Str(x) == [t |-> "string", s |-> x, n |-> 0]
Num(k) == [t |-> "number", s |-> <<>>, n |-> k]
Bool(b) == [t |-> "boolean", s |-> <<>>, n |-> IF b THEN 1 ELSE 0]
Ref(i) == [t |-> "ref", s |-> <<>>, n |-> i]
PromiseVal(p) == [t |-> "promise", s |-> <<>>, n |-> p]
\* The promise made by .then(...).catch(...) on promise p.
ThenCatch(p) == [t |-> "promise", s |-> <<".then", ".catch">>, n |-> p.n]
\* An object with no string conversion, such as Object.create(null).
NullProtoObject == [t |-> "nullproto", s |-> <<>>, n |-> 0]

\* ToBoolean
Truthy(v) ==
  CASE v.t = "undefined" -> FALSE
    [] v.t = "null" -> FALSE
    [] v.t = "string" -> v.s # <<>>
    [] v.t = "number" -> v.n # 0
    [] v.t = "boolean" -> v.n = 1
    [] OTHER -> TRUE

\* String(v). ok is FALSE where the conversion throws a TypeError.
ErrorToString(o) ==
  IF o.message = <<>> THEN o.name
  ELSE IF o.name = <<>> THEN o.message
  ELSE o.name \o S_ColonSpace \o o.message

JSString(h, v) ==
  CASE v.t = "undefined" -> [ok |-> TRUE, s |-> S_undefined]
    [] v.t = "null" -> [ok |-> TRUE, s |-> S_null]
    [] v.t = "string" -> [ok |-> TRUE, s |-> v.s]
    [] v.t = "number" -> [ok |-> TRUE, s |-> NatToString(v.n)]
    [] v.t = "boolean" -> [ok |-> TRUE, s |-> IF v.n = 1 THEN S_true ELSE S_false]
    [] v.t = "ref" -> [ok |-> TRUE, s |-> ErrorToString(h[v.n])]
    [] OTHER -> [ok |-> FALSE, s |-> <<>>]

-----------------------------------------------------------------------------
\* Error objects.

NoContext == [has |-> FALSE, map |-> [k \in {} |-> Undefined]]

\* The frames a stack captured inside the CtxError constructor starts with.
ErrFrames == <<"Error", "at new CtxError", "at err", "at caller">>
AttemptFrames == <<"Error", "at new CtxError", "at convertUnknownErrorToCtxError", "at attempt", "at caller">>
ForeignFrames == <<"Error", "at thrower">>

\* v instanceof Error: every object of the heap is an Error.
InstanceOfError(h, v) == v.t = "ref" /\ v.n \in DOMAIN h

\* v instanceof CtxError
InstanceOfCtxError(h, v) == v.t = "ref" /\ v.n \in DOMAIN h /\ h[v.n].cls = "CtxError"

\* new Error(message, { cause }) made by foreign code; name is set by a subclass.
NewError(name, message, cause, stack) ==
  [cls |-> "Error", name |-> name, message |-> message, cause |-> cause,
   context |-> NoContext, stack |-> stack]

\* The constructor keeping the converted error as the cause of the new object
\* instead of copying it.
CtxErrorConstructor_WrapsConverted(h, message, optCause, errorToConvert, frames) ==
  [cls |-> "CtxError", name |-> S_CtxError, message |-> message,
   cause |-> IF Truthy(errorToConvert) THEN errorToConvert
             ELSE IF Truthy(optCause) THEN optCause ELSE Undefined,
   context |-> NoContext, stack |-> frames]

\* The constructor taking the new object itself for its cause; it is the
\* object allocated next.
CtxErrorConstructor_SelfCause(h, message, optCause, errorToConvert, frames) ==
  [cls |-> "CtxError", name |-> S_CtxError, message |-> message,
   cause |-> IF Truthy(optCause) THEN Ref(Len(h) + 1) ELSE Undefined,
   context |-> NoContext, stack |-> frames]

\* new CtxError(message, options, errorToConvert); optCause is options?.cause and
\* frames is the stack that super() captures at this call.
\* The constructor copying the context of the converted error too.
CtxErrorConstructor_CopiesContext(h, message, optCause, errorToConvert, frames) ==
  IF Truthy(errorToConvert)
  THEN LET t == h[errorToConvert.n] IN
       [cls |-> "CtxError", name |-> t.name, message |-> t.message,
        cause |-> IF InstanceOfError(h, t.cause) THEN t.cause ELSE Undefined,
        context |-> t.context,
        stack |-> IF t.stack # <<>> THEN t.stack ELSE frames]
  ELSE [cls |-> "CtxError", name |-> S_CtxError, message |-> message,
        cause |-> IF Truthy(optCause) THEN optCause ELSE Undefined,
        context |-> NoContext, stack |-> frames]

CtxErrorConstructor(h, message, optCause, errorToConvert, frames) ==
  IF Truthy(errorToConvert)
  THEN LET t == h[errorToConvert.n] IN
       [cls |-> "CtxError", name |-> t.name, message |-> t.message,
        cause |-> IF InstanceOfError(h, t.cause) THEN t.cause ELSE Undefined,
        context |-> NoContext,
        stack |-> IF t.stack # <<>> THEN t.stack ELSE frames]
  ELSE [cls |-> "CtxError", name |-> S_CtxError, message |-> message,
        cause |-> IF Truthy(optCause) THEN optCause ELSE Undefined,
        context |-> NoContext, stack |-> frames]

\* err(message, cause): the new object
err(h, message, cause) ==
  IF Truthy(cause)
  THEN CtxErrorConstructor(h, message, cause, Undefined, ErrFrames)
  ELSE CtxErrorConstructor(h, message, Undefined, Undefined, ErrFrames)

\* isErr testing for any Error instead of CtxError.
isErr_AnyError(h, result) == InstanceOfError(h, result)

\* isErr(result)
isErr(h, result) == InstanceOfCtxError(h, result)

\* Reading property name / message of any value: undefined on a primitive.
PropName(h, v) == IF InstanceOfError(h, v) THEN Str(h[v.n].name) ELSE Undefined
PropMessage(h, v) == IF InstanceOfError(h, v) THEN Str(h[v.n].message) ELSE Undefined
PropCause(h, v) == IF InstanceOfError(h, v) THEN h[v.n].cause ELSE Undefined

\* #prependErrorNameToMessage that forgets the "CtxError" name.
PrependErrorNameToMessage_OnlyError(h, error) ==
  LET name == PropName(h, error)
      shouldShowName == name # Str(S_Error)
      prefix == IF shouldShowName THEN JSString(h, name).s \o S_ColonSpace ELSE <<>>
  IN prefix \o JSString(h, PropMessage(h, error)).s

\* #prependErrorNameToMessage(error)
PrependErrorNameToMessage(h, error) ==
  LET name == PropName(h, error)
      shouldShowName == name # Str(S_Error) /\ name # Str(S_CtxError)
      prefix == IF shouldShowName THEN JSString(h, name).s \o S_ColonSpace ELSE <<>>
  IN prefix \o JSString(h, PropMessage(h, error)).s

\* The while loop following cause only while it is a CtxError.
RECURSIVE CauseMessages_OnlyCtxLinks(_, _)
CauseMessages_OnlyCtxLinks(h, currentCause) ==
  IF ~Truthy(currentCause) THEN <<>>
  ELSE <<PrependErrorNameToMessage(h, currentCause)>>
       \o CauseMessages_OnlyCtxLinks(h, IF InstanceOfCtxError(h, PropCause(h, currentCause))
                                        THEN PropCause(h, currentCause) ELSE Undefined)

\* The while loop of messageChain: the segments pushed from currentCause on.
RECURSIVE CauseMessages(_, _)
CauseMessages(h, currentCause) ==
  IF ~Truthy(currentCause) THEN <<>>
  ELSE <<PrependErrorNameToMessage(h, currentCause)>>
       \o CauseMessages(h, IF InstanceOfError(h, PropCause(h, currentCause))
                           THEN PropCause(h, currentCause) ELSE Undefined)

\* filteredMessages without the trim of each kept message.
FilteredMessages_NoTrim(messages) ==
  SelectSeq(messages, LAMBDA m : Trim(m) # <<>>)

\* filteredMessages without the filter.
FilteredMessages_NoFilter(messages) == MapTrim(messages)

\* filteredMessages of messageChain
FilteredMessages(messages) == FilterNonEmpty(MapTrim(messages))

\* messageChain formatting the receiver like a cause, name included.
messageChain_PrefixesOwn(h, e) ==
  LET messages == <<PrependErrorNameToMessage(h, Ref(e))>> \o CauseMessages(h, h[e].cause)
      filteredMessages == FilteredMessages(messages)
  IN IF Len(filteredMessages) > 0 THEN Join(filteredMessages, S_Arrow) ELSE S_UnknownError

\* get messageChain() on the CtxError at index e
messageChain(h, e) ==
  LET messages == <<h[e].message>> \o CauseMessages(h, h[e].cause)
      filteredMessages == FilteredMessages(messages)
  IN IF Len(filteredMessages) > 0 THEN Join(filteredMessages, S_Arrow) ELSE S_UnknownError

\* rootStack

S_noStack == <<"<", "n", "o", " ", "s", "t", "a", "c", "k", ">">>
S_atNewCtxError == <<"a", "t", " ", "n", "e", "w", " ", "C", "t", "x", "E", "r", "r", "o", "r">>
S_atErr == <<"a", "t", " ", "e", "r", "r">>
S_atAttempt == <<"a", "t", " ", "a", "t", "t", "e", "m", "p", "t">>
S_LineJoin == <<"\n", " ", " ", " ", " ">>

\* The text of a line of a stack trace; a stack is the sequence of its lines.
LineText(line) ==
  CASE line = "Error" -> <<"E", "r", "r", "o", "r">>
    [] line = "TypeError" -> <<"T", "y", "p", "e", "E", "r", "r", "o", "r">>
    [] line = "at new CtxError" -> <<" ", " ", " ", " ", "a", "t", " ", "n", "e", "w", " ", "C", "t", "x", "E", "r", "r", "o", "r", " ", "(", "f", ")">>
    [] line = "at err" -> <<" ", " ", " ", " ", "a", "t", " ", "e", "r", "r", " ", "(", "f", ")">>
    [] line = "at attempt" -> <<" ", " ", " ", " ", "a", "t", " ", "a", "t", "t", "e", "m", "p", "t", " ", "(", "f", ")">>
    [] line = "at convertUnknownErrorToCtxError" -> <<" ", " ", " ", " ", "a", "t", " ", "c", "o", "n", "v", "e", "r", "t", "U", "n", "k", "n", "o", "w", "n", "E", "r", "r", "o", "r", "T", "o", "C", "t", "x", "E", "r", "r", "o", "r", " ", "(", "f", ")">>
    [] line = "at String" -> <<" ", " ", " ", " ", "a", "t", " ", "S", "t", "r", "i", "n", "g", " ", "(", "f", ")">>
    [] line = "at caller" -> <<" ", " ", " ", " ", "a", "t", " ", "c", "a", "l", "l", "e", "r", " ", "(", "f", ")">>
    [] line = "at thrower" -> <<" ", " ", " ", " ", "a", "t", " ", "t", "h", "r", "o", "w", "e", "r", " ", "(", "f", ")">>
    [] line = "at attemptLogin" -> <<" ", " ", " ", " ", "a", "t", " ", "a", "t", "t", "e", "m", "p", "t", "L", "o", "g", "i", "n", " ", "(", "f", ")">>
    [] line = "at errorHandler" -> <<" ", " ", " ", " ", "a", "t", " ", "e", "r", "r", "o", "r", "H", "a", "n", "d", "l", "e", "r", " ", "(", "f", ")">>
    [] line = "blank" -> <<" ", " ">>

\* line.startsWith(exclude)
StartsWith(line, exclude) ==
  Len(exclude) <= Len(line) /\ SubSeq(line, 1, Len(exclude)) = exclude

\* The stack property as a string: the lines of the trace joined by newlines;
\* no line at all is an absent (or empty) stack.
StackText(stack) ==
  Join([i \in 1..Len(stack) |-> LineText(stack[i])], <<"\n">>)

\* stack.split("\n")
RECURSIVE SplitLines(_)
SplitLines(s) ==
  LET hits == {i \in 1..Len(s) : s[i] = "\n"}
  IN IF hits = {} THEN <<s>>
     ELSE LET i == CHOOSE k \in hits : \A j \in hits : k <= j
          IN <<SubSeq(s, 1, i - 1)>> \o SplitLines(SubSeq(s, i + 1, Len(s)))

\* cleanStack keeping the frames of the library.
cleanStack_KeepsAll(stack) ==
  LET stackLines == SplitLines(Trim(stack))
  IN Join([i \in 1..Len(stackLines) |-> Trim(stackLines[i])], S_LineJoin)

\* cleanStack(stack): the text trimmed and split into lines, the lines trimmed,
\* those starting with an excluded text dropped, the rest joined by a newline
\* and four spaces
cleanStack(stack) ==
  LET stackLines == SplitLines(Trim(stack))
      excludes == {S_atNewCtxError, S_atErr, S_atAttempt}
      trimmed == [i \in 1..Len(stackLines) |-> Trim(stackLines[i])]
      cleanedLines == SelectSeq(trimmed,
                        LAMBDA line : ~\E exclude \in excludes : StartsWith(line, exclude))
  IN Join(cleanedLines, S_LineJoin)

\* The stacks pushed by the loop of rootStack from currentCause on.
RECURSIVE CauseStacks(_, _)
CauseStacks(h, currentCause) ==
  IF Truthy(currentCause) /\ InstanceOfError(h, currentCause)
  THEN <<h[currentCause.n].stack>>
       \o CauseStacks(h, IF InstanceOfError(h, h[currentCause.n].cause)
                         THEN h[currentCause.n].cause ELSE Undefined)
  ELSE <<>>

\* rootStack returning the stack of the receiver whenever it has one.
rootStack_OwnStackFirst(h, e) ==
  LET stacks == <<h[e].stack>> \o CauseStacks(h, h[e].cause)
      trimmedStacks == [i \in 1..Len(stacks) |-> Trim(StackText(stacks[i]))]
      filteredStacks == SelectSeq(trimmedStacks, LAMBDA stack : stack # <<>>)
  IN IF Len(filteredStacks) > 0 THEN cleanStack(filteredStacks[1])
     ELSE S_noStack

\* rootStack of the CtxError at index e: the stacks of the chain trimmed, the
\* empty ones dropped, the last one cleaned
rootStack(h, e) ==
  LET stacks == <<h[e].stack>> \o CauseStacks(h, h[e].cause)
      trimmedStacks == [i \in 1..Len(stacks) |-> Trim(StackText(stacks[i]))]
      filteredStacks == SelectSeq(trimmedStacks, LAMBDA stack : stack # <<>>)
  IN IF Len(filteredStacks) > 0 THEN cleanStack(filteredStacks[Len(filteredStacks)])
     ELSE S_noStack

\* ctx(context) keeping the stored value of a key that is already there.
ctx_FirstWriteWins(o, context) ==
  [o EXCEPT !.context =
     [has |-> TRUE,
      map |-> [k \in (DOMAIN o.context.map) \cup (DOMAIN context) |->
                 IF k \in DOMAIN o.context.map THEN o.context.map[k] ELSE context[k]]]]

\* ctx(context) on the object o: the object after the call
ctx(o, context) ==
  [o EXCEPT !.context =
     [has |-> TRUE,
      map |-> [k \in (DOMAIN o.context.map) \cup (DOMAIN context) |->
                 IF k \in DOMAIN context THEN context[k] ELSE o.context.map[k]]]]

\* The own-context test done on the stored value's truthiness.
HasOwnContext_Truthy(o, key) ==
  o.context.has /\ key \in DOMAIN o.context.map /\ Truthy(o.context.map[key])

\* Object.hasOwn(this.context, key), guarded by this.context being set
HasOwnContext(o, key) == o.context.has /\ key \in DOMAIN o.context.map

\* The first CtxError at or below the value c along the causes, if any.
RECURSIVE NextCtxErrorFrom(_, _)
NextCtxErrorFrom(h, c) ==
  IF InstanceOfCtxError(h, c) THEN c
  ELSE IF InstanceOfError(h, c) THEN NextCtxErrorFrom(h, h[c.n].cause)
  ELSE Undefined

\* get(key) going on below a cause that is a plain Error.
RECURSIVE get_ThroughPlainErrors(_, _, _)
get_ThroughPlainErrors(h, e, key) ==
  LET next == NextCtxErrorFrom(h, h[e].cause)
      deepestValue == IF next # Undefined THEN get_ThroughPlainErrors(h, next.n, key) ELSE Undefined
  IN IF next # Undefined /\ deepestValue # Undefined THEN deepestValue
     ELSE IF HasOwnContext(h[e], key) THEN h[e].context.map[key]
     ELSE Undefined

\* get(key) looking at its own context before its cause.
RECURSIVE get_ShallowestFirst(_, _, _)
get_ShallowestFirst(h, e, key) ==
  IF HasOwnContext(h[e], key) THEN h[e].context.map[key]
  ELSE IF InstanceOfCtxError(h, h[e].cause) THEN get_ShallowestFirst(h, h[e].cause.n, key)
  ELSE Undefined

\* get(key) on the CtxError at index e
RECURSIVE get(_, _, _)
get(h, e, key) ==
  LET deepestValue == IF InstanceOfCtxError(h, h[e].cause)
                      THEN get(h, h[e].cause.n, key) ELSE Undefined
  IN IF InstanceOfCtxError(h, h[e].cause) /\ deepestValue # Undefined THEN deepestValue
     ELSE IF HasOwnContext(h[e], key) THEN h[e].context.map[key]
     ELSE Undefined

\* getAll(key) ending its scan at the first link that lacks the key.
RECURSIVE getAll_StopsAtGap(_, _, _)
getAll_StopsAtGap(h, e, key) ==
  IF HasOwnContext(h[e], key)
  THEN <<h[e].context.map[key]>>
       \o (IF InstanceOfCtxError(h, h[e].cause) THEN getAll_StopsAtGap(h, h[e].cause.n, key) ELSE <<>>)
  ELSE <<>>

\* getAll(key) pushing the values of the cause before the own one.
RECURSIVE getAll_DeepestFirst(_, _, _)
getAll_DeepestFirst(h, e, key) ==
  (IF InstanceOfCtxError(h, h[e].cause) THEN getAll_DeepestFirst(h, h[e].cause.n, key) ELSE <<>>)
  \o (IF HasOwnContext(h[e], key) THEN <<h[e].context.map[key]>> ELSE <<>>)

\* getAll(key) on the CtxError at index e
RECURSIVE getAll(_, _, _)
getAll(h, e, key) ==
  (IF HasOwnContext(h[e], key) THEN <<h[e].context.map[key]>> ELSE <<>>)
  \o (IF InstanceOfCtxError(h, h[e].cause) THEN getAll(h, h[e].cause.n, key) ELSE <<>>)

\* errWithCtx(defaultContext)(message, cause) with the default context left out.
errWithCtx_NoDefault(h, defaultContext, message, cause) == err(h, message, cause)

\* errWithCtx(defaultContext)(message, cause): the new object
errWithCtx(h, defaultContext, message, cause) == ctx(err(h, message, cause), defaultContext)

\* Context objects by identity. objs holds every plain object made so far, the
\* maps callers pass to ctx and to errWithCtx and the ones ctx makes; of gives,
\* for the index of each error that has a context, the object that is its
\* context.
NoMaps == [objs |-> <<>>, of |-> [i \in {} |-> 0]]

\* { ...prev, ...context }: a key of both takes the value of context
SpreadOver(prev, context) ==
  [k \in (DOMAIN prev) \cup (DOMAIN context) |->
     IF k \in DOMAIN context THEN context[k] ELSE prev[k]]

\* ctx writing the entries into the context object the receiver already has.
ctxAssign_InPlace(s, e, context) ==
  IF e \in DOMAIN s.of
  THEN [s EXCEPT !.objs[s.of[e]] = SpreadOver(s.objs[s.of[e]], s.objs[context])]
  ELSE [objs |-> Append(s.objs, s.objs[context]),
        of |-> [i \in DOMAIN s.of \cup {e} |-> IF i = e THEN Len(s.objs) + 1 ELSE s.of[i]]]

\* this.context = { ...this.context, ...context } on the error at index e, the
\* argument being the object context of the store: a new object is made and
\* becomes the context of e
ctxAssign(s, e, context) ==
  LET prev == IF e \in DOMAIN s.of THEN s.objs[s.of[e]] ELSE [k \in {} |-> Undefined]
  IN [objs |-> Append(s.objs, SpreadOver(prev, s.objs[context])),
      of |-> [i \in DOMAIN s.of \cup {e} |-> IF i = e THEN Len(s.objs) + 1 ELSE s.of[i]]]

-----------------------------------------------------------------------------
\* attempt

S_cannotConvert == <<"C", "a", "n", "n", "o", "t", " ", "c", "o", "n", "v", "e", "r", "t">>

\* isPromiseLike(value)
isPromiseLike(value) == value.t = "promise"

\* convertUnknownErrorToCtxError(error) run on heap h: the heap after it, whether
\* it completed (ok) and what it returned, or the TypeError that String(error)
\* threw out of it.
convertUnknownErrorToCtxError(h, error) ==
  IF InstanceOfError(h, error)
  THEN LET h1 == Append(h, CtxErrorConstructor(h, <<>>, Undefined, error, AttemptFrames))
       IN [heap |-> h1, ok |-> TRUE, ret |-> Ref(Len(h1))]
  ELSE IF JSString(h, error).ok
  THEN LET h1 == Append(h, NewError(S_Error, JSString(h, error).s, Undefined,
                                    <<"Error", "at convertUnknownErrorToCtxError", "at attempt", "at caller">>))
           h2 == Append(h1, CtxErrorConstructor(h1, <<>>, Undefined, Ref(Len(h1)), AttemptFrames))
       IN [heap |-> h2, ok |-> TRUE, ret |-> Ref(Len(h2))]
  ELSE LET h1 == Append(h, NewError(S_TypeError, S_cannotConvert, Undefined,
                                    <<"TypeError", "at String", "at convertUnknownErrorToCtxError", "at attempt", "at caller">>))
       IN [heap |-> h1, ok |-> FALSE, ret |-> Ref(Len(h1))]

\* How many objects convertUnknownErrorToCtxError allocates for error.
ConvertAllocs(h, error) ==
  IF InstanceOfError(h, error) THEN 1 ELSE IF JSString(h, error).ok THEN 2 ELSE 1

\* attempt with a returned Error treated like a thrown one.
attempt_ConvertsReturnedErrors(h, op) ==
  IF op.kind = "return" /\ ~InstanceOfError(h, op.val)
  THEN [heap |-> h, out |-> "returned",
        ret |-> IF isPromiseLike(op.val) THEN ThenCatch(op.val) ELSE op.val]
  ELSE LET c == convertUnknownErrorToCtxError(h, op.val)
       IN [heap |-> c.heap, out |-> IF c.ok THEN "returned" ELSE "threw", ret |-> c.ret]

\* The synchronous part of attempt(fn), where calling fn() does op: it returns
\* op.val (kind "return") or throws op.val (kind "throw"). out tells whether
\* attempt returned or threw, ret what; a returned thenable gives the promise
\* that .then(...).catch(...) makes of it, settled later by attemptReaction.
attempt(h, op) ==
  IF op.kind = "return"
  THEN [heap |-> h, out |-> "returned",
        ret |-> IF isPromiseLike(op.val) THEN ThenCatch(op.val) ELSE op.val]
  ELSE LET c == convertUnknownErrorToCtxError(h, op.val)
       IN [heap |-> c.heap, out |-> IF c.ok THEN "returned" ELSE "threw", ret |-> c.ret]

\* The reaction of result.then((value) => value).catch(convert) once the promise
\* that fn returned has settled as src: how the promise attempt returned settles.
attemptReaction(h, src) ==
  IF src.state = "fulfilled"
  THEN [heap |-> h, state |-> "fulfilled", val |-> src.val]
  ELSE LET c == convertUnknownErrorToCtxError(h, src.val)
       IN [heap |-> c.heap, state |-> IF c.ok THEN "fulfilled" ELSE "rejected", val |-> c.ret]

-----------------------------------------------------------------------------
\* filterMap

\* errors: undefined, or the array of the errors collected
NoErrors == [defined |-> FALSE, list |-> <<>>]
ErrorsArray(errors) == [defined |-> TRUE, list |-> errors]

\* handleItems keeping the undefined results among the values.
handleItems_KeepsUndefined(h, awaitedItems) ==
  LET errors == SelectSeq(awaitedItems, LAMBDA item : isErr(h, item))
  IN [values |-> SelectSeq(awaitedItems, LAMBDA item : ~isErr(h, item)),
      errors |-> IF Len(errors) > 0 THEN ErrorsArray(errors) ELSE NoErrors]

\* handleItems returning the errors array even when it is empty.
handleItems_EmptyErrorsArray(h, awaitedItems) ==
  [values |-> SelectSeq(awaitedItems, LAMBDA item : item # Undefined /\ ~isErr(h, item)),
   errors |-> ErrorsArray(SelectSeq(awaitedItems, LAMBDA item : item # Undefined /\ isErr(h, item)))]

\* handleItems(awaitedItems): the object { values, errors }
handleItems(h, awaitedItems) ==
  LET errors == SelectSeq(awaitedItems, LAMBDA item : item # Undefined /\ isErr(h, item))
      filteredItems == SelectSeq(awaitedItems, LAMBDA item : item # Undefined /\ ~isErr(h, item))
  IN [values |-> filteredItems,
      errors |-> IF Len(errors) > 0 THEN ErrorsArray(errors) ELSE NoErrors]

\* The index of the first call of fn that throws, 0 when none does; the k-th
\* call of fn does ops[k]: it returns ops[k].val or throws it.
FirstThrow(ops) ==
  LET throwing == {k \in DOMAIN ops : ops[k].kind = "throw"}
  IN IF throwing = {} THEN 0 ELSE CHOOSE k \in throwing : \A j \in throwing : k <= j

\* items.map((item, index) => fn(item, index)): the indices fn was called on,
\* in the order of the calls, and the array made of what it returned, or the
\* value thrown by the call that ended the loop.
mapItems(ops) ==
  LET t == FirstThrow(ops)
  IN IF t = 0
     THEN [threw |-> FALSE, calls |-> [k \in 1..Len(ops) |-> k],
           mapped |-> [k \in 1..Len(ops) |-> ops[k].val], thrown |-> Undefined]
     ELSE [threw |-> TRUE, calls |-> [k \in 1..t |-> k],
           mapped |-> [k \in 1..(t - 1) |-> ops[k].val], thrown |-> ops[t].val]

\* The state of a filterMap call: the calls of fn made, mappedItems, how the
\* call went (state) with the object returned or the promise's fulfilment value
\* (outcome) or what was thrown or the rejection reason (reason), and for the
\* promise path the state of Promise.all: the resolved values by index, the
\* indices resolved, the queue of reaction jobs (promise ids) and the order in
\* which the jobs ran.
FilterMapCall(state, calls, mapped, resolved, filled, jobs, order, outcome, reason) ==
  [state |-> state, calls |-> calls, mapped |-> mapped, resolved |-> resolved,
   filled |-> filled, jobs |-> jobs, order |-> order, outcome |-> outcome, reason |-> reason]

NoOutcome == [values |-> <<>>, errors |-> NoErrors]

NoFilterMap == FilterMapCall("idle", <<>>, <<>>, <<>>, {}, <<>>, <<>>, NoOutcome, Undefined)

\* The synchronous part of filterMap(items, fn): fn is called on the items in
\* turn; a throw ends the call; with a thenable among the results the call
\* returns the promise Promise.all(mappedItems).then(handleItems), pending, the
\* results that are no thenables being resolved already; otherwise it returns
\* handleItems(mappedItems).
filterMap(h, ops) ==
  LET m == mapItems(ops)
      plain == {k \in DOMAIN m.mapped : ~isPromiseLike(m.mapped[k])}
  IN IF m.threw
     THEN FilterMapCall("threw", m.calls, m.mapped, <<>>, {}, <<>>, <<>>, NoOutcome, m.thrown)
     ELSE IF \E k \in DOMAIN m.mapped : isPromiseLike(m.mapped[k])
     THEN FilterMapCall("pending", m.calls, m.mapped,
                        [k \in DOMAIN m.mapped |-> IF k \in plain THEN m.mapped[k] ELSE Undefined],
                        plain, <<>>, <<>>, NoOutcome, Undefined)
     ELSE FilterMapCall("returned", m.calls, m.mapped, <<>>, {}, <<>>, <<>>,
                        handleItems(h, m.mapped), Undefined)

\* Promise.all storing a resolved value at the first index not yet resolved.
AllResolveElement_CompletionOrder(resolved, filled, k, v) ==
  LET free == (DOMAIN resolved) \ filled
  IN [resolved EXCEPT ![CHOOSE j \in free : \A i \in free : j <= i] = v]

\* Promise.all's resolve element function of index k, called with v
AllResolveElement(resolved, filled, k, v) == [resolved EXCEPT ![k] = v]

\* The reaction job of Promise.all(mappedItems).then(handleItems) for the
\* promise p of index k, settled as src: a rejection rejects the promise
\* filterMap returned if it is still pending; a fulfilment resolves index k,
\* and once every index is resolved handleItems runs and its result fulfils the
\* promise.
filterMapReaction(h, call, p, k, src) ==
  IF src.state = "rejected"
  THEN [call EXCEPT !.jobs = Tail(call.jobs), !.order = Append(call.order, p),
                    !.state = IF call.state = "pending" THEN "rejected" ELSE call.state,
                    !.reason = IF call.state = "pending" THEN src.val ELSE call.reason]
  ELSE LET resolved == AllResolveElement(call.resolved, call.filled, k, src.val)
           filled == call.filled \cup {k}
           done == call.state = "pending" /\ filled = DOMAIN call.mapped
       IN [call EXCEPT !.jobs = Tail(call.jobs), !.order = Append(call.order, p),
                       !.resolved = resolved, !.filled = filled,
                       !.state = IF done THEN "fulfilled" ELSE call.state,
                       !.outcome = IF done THEN handleItems(h, resolved) ELSE call.outcome]

-----------------------------------------------------------------------------
\* The program as a state machine: calls made by client code, one action per
\* call.  last holds the most recent call and what it gave back.

Call(op, kind, recv, key, arg, out, ret, list) ==
  [op |-> op, kind |-> kind, recv |-> recv, key |-> key, arg |-> arg,
   out |-> out, ret |-> ret, list |-> list]

NoCall == Call("none", "", Undefined, "", Undefined, "", Undefined, <<>>)

Refs(h) == {Ref(i) : i \in DOMAIN h}
CtxRefs(h) == {Ref(i) : i \in {j \in DOMAIN h : h[j].cls = "CtxError"}}

Init ==
  /\ heap = <<>>
  /\ promises = <<>>
  /\ last = NoCall
  /\ fm = NoFilterMap
  /\ store = NoMaps

\* Foreign code does new Error(message, { cause }) or new CustomError(...).
ForeignError(name, message, cause) ==
  /\ Len(heap) < MaxObjs
  /\ heap' = Append(heap, NewError(name, message, cause, ForeignFrames))
  /\ last' = Call("newError", "", Undefined, "", cause, "returned", Ref(Len(heap) + 1), <<>>)
  /\ UNCHANGED <<promises, fm, store>>

\* Foreign code makes an error whose stack it sets, possibly to nothing.
ForeignErrorStack(name, message, cause, stack) ==
  /\ Len(heap) < MaxObjs
  /\ heap' = Append(heap, NewError(name, message, cause, stack))
  /\ last' = Call("newError", "", Undefined, "", cause, "returned", Ref(Len(heap) + 1), <<>>)
  /\ UNCHANGED <<promises, fm, store>>

\* err(message, cause) wrapping a copy of the cause instead of the cause.
Err_CopiesCause(message, cause) ==
  /\ Len(heap) + (IF cause.t = "ref" THEN 1 ELSE 0) < MaxObjs
  /\ heap' = IF cause.t = "ref"
             THEN heap \o <<heap[cause.n], err(heap, message, Ref(Len(heap) + 1))>>
             ELSE Append(heap, err(heap, message, cause))
  /\ last' = Call("err", "", Undefined, "", cause, "returned", Ref(Len(heap')), <<>>)
  /\ UNCHANGED <<promises, fm, store>>

\* err(message, cause)
Err(message, cause) ==
  /\ Len(heap) < MaxObjs
  /\ heap' = Append(heap, err(heap, message, cause))
  /\ last' = Call("err", "", Undefined, "", cause, "returned", Ref(Len(heap) + 1), <<>>)
  /\ UNCHANGED <<promises, fm, store>>

\* err(message, cause) called where the engine records frames as the trace of
\* the new object: from inside another function, or on an engine that records no
\* trace at all.
ErrIn(message, cause, frames) ==
  /\ Len(heap) < MaxObjs
  /\ heap' = Append(heap, [err(heap, message, cause) EXCEPT !.stack = frames])
  /\ last' = Call("err", "", Undefined, "", cause, "returned", Ref(Len(heap) + 1), <<>>)
  /\ UNCHANGED <<promises, fm, store>>

\* errWithCtx(defaultContext)(message, cause); the call records the default
\* context and the message it was given.
ErrWithCtx(defaultContext, message, cause) ==
  /\ Len(heap) < MaxObjs
  /\ heap' = Append(heap, errWithCtx(heap, defaultContext, message, cause))
  /\ last' = Call("errWithCtx", "", Undefined, "", cause, "returned", Ref(Len(heap) + 1),
                  <<defaultContext, message>>)
  /\ UNCHANGED <<promises, fm, store>>

\* e.ctx(context); the call records the map it was given.
Ctx(e, context) ==
  /\ InstanceOfCtxError(heap, e)
  /\ heap' = [heap EXCEPT ![e.n] = ctx(heap[e.n], context)]
  /\ last' = Call("ctx", "", e, "", Undefined, "returned", e, <<context>>)
  /\ UNCHANGED <<promises, fm, store>>

\* The caller writes an object literal, to pass it to ctx or errWithCtx.
NewMap(map) ==
  /\ Len(store.objs) < MaxMaps
  /\ store' = [store EXCEPT !.objs = Append(@, map)]
  /\ last' = Call("newMap", "", Undefined, "", Num(Len(store.objs) + 1), "returned", Undefined, <<map>>)
  /\ UNCHANGED <<heap, promises, fm>>

\* e.ctx(context), the argument being an object of the store: one the caller
\* made, or the context of an error
CtxOf(e, context) ==
  /\ InstanceOfCtxError(heap, e)
  /\ context \in DOMAIN store.objs
  /\ Len(store.objs) < MaxMaps
  /\ store' = ctxAssign(store, e.n, context)
  /\ heap' = [heap EXCEPT ![e.n].context =
                [has |-> TRUE, map |-> store'.objs[store'.of[e.n]]]]
  /\ last' = Call("ctx", "", e, "", Num(context), "returned", e, <<store.objs[context]>>)
  /\ UNCHANGED <<promises, fm>>

\* errWithCtx(defaultContext)(message, cause), defaultContext being an object of
\* the store that the factory holds on to
ErrWithCtxOf(defaultContext, message, cause) ==
  /\ Len(heap) < MaxObjs
  /\ defaultContext \in DOMAIN store.objs
  /\ Len(store.objs) < MaxMaps
  /\ store' = ctxAssign(store, Len(heap) + 1, defaultContext)
  /\ heap' = Append(heap, [err(heap, message, cause) EXCEPT !.context =
                             [has |-> TRUE, map |-> store'.objs[store'.of[Len(heap) + 1]]]])
  /\ last' = Call("errWithCtx", "", Undefined, "", Num(defaultContext), "returned",
                  Ref(Len(heap) + 1), <<store.objs[defaultContext]>>)
  /\ UNCHANGED <<promises, fm>>

\* e.get(key)
Get(e, key) ==
  /\ InstanceOfCtxError(heap, e)
  /\ last' = Call("get", "", e, key, Undefined, "returned", get(heap, e.n, key), <<>>)
  /\ UNCHANGED <<heap, promises, fm, store>>

\* e.getAll(key)
GetAll(e, key) ==
  /\ InstanceOfCtxError(heap, e)
  /\ last' = Call("getAll", "", e, key, Undefined, "returned", Undefined, getAll(heap, e.n, key))
  /\ UNCHANGED <<heap, promises, fm, store>>

\* e.rootStack
RootStack(e) ==
  /\ InstanceOfCtxError(heap, e)
  /\ last' = Call("rootStack", "", e, "", Undefined, "returned", Str(rootStack(heap, e.n)), <<>>)
  /\ UNCHANGED <<heap, promises, fm, store>>

\* e.messageChain
MessageChain(e) ==
  /\ InstanceOfCtxError(heap, e)
  /\ last' = Call("messageChain", "", e, "", Undefined, "returned", Str(messageChain(heap, e.n)), <<>>)
  /\ UNCHANGED <<heap, promises, fm, store>>

\* isErr(v)
IsErr(v) ==
  /\ last' = Call("isErr", "", Undefined, "", v, "returned", Bool(isErr(heap, v)), <<>>)
  /\ UNCHANGED <<heap, promises, fm, store>>

\* attempt(fn) where fn() returns the non-thenable x or throws v.
AttemptSync(op) ==
  /\ ~(op.kind = "return" /\ isPromiseLike(op.val))
  /\ Len(heap) + (IF op.kind = "throw" THEN ConvertAllocs(heap, op.val) ELSE 0) <= MaxObjs
  /\ LET r == attempt(heap, op) IN
       /\ heap' = r.heap
       /\ last' = Call("attempt", op.kind, Undefined, "", op.val, r.out, r.ret, <<>>)
  /\ UNCHANGED <<promises, fm, store>>

\* attempt(fn) where fn() returns a promise, still pending: attempt returns the
\* promise made by .then(...).catch(...), recorded beside it in promises.
AttemptAsync ==
  /\ Len(promises) < MaxPromises
  /\ LET p == Len(promises) + 1
         r == attempt(heap, [kind |-> "return", val |-> PromiseVal(p)]) IN
       /\ r.ret = ThenCatch(PromiseVal(p))
       /\ promises' = Append(promises,
            [src |-> [state |-> "pending", val |-> Undefined],
             res |-> [state |-> "pending", val |-> Undefined]])
       /\ last' = Call("attempt", "promise", Undefined, "", PromiseVal(p), r.out, r.ret, <<>>)
  /\ UNCHANGED <<heap, fm, store>>

\* The promise fn returned fulfils with x or rejects with v.
Settle(p, state, v) ==
  /\ p \in DOMAIN promises
  /\ promises[p].src.state = "pending"
  /\ promises' = [promises EXCEPT ![p].src = [state |-> state, val |-> v]]
  /\ last' = NoCall
  /\ UNCHANGED <<heap, fm, store>>

\* The reaction job of attempt's .then(...).catch(...) runs.
React(p) ==
  /\ p \in DOMAIN promises
  /\ promises[p].src.state # "pending"
  /\ promises[p].res.state = "pending"
  /\ Len(heap) + (IF promises[p].src.state = "rejected"
                  THEN ConvertAllocs(heap, promises[p].src.val) ELSE 0) <= MaxObjs
  /\ LET r == attemptReaction(heap, promises[p].src) IN
       /\ heap' = r.heap
       /\ promises' = [promises EXCEPT ![p].res = [state |-> r.state, val |-> r.val]]
       /\ last' = Call("react", promises[p].src.state, PromiseVal(p), "", promises[p].src.val,
                       r.state, r.val, <<>>)
  /\ UNCHANGED <<fm, store>>

\* The number of thenables among the first k results.
RECURSIVE PromisesUpTo(_, _)
PromisesUpTo(ops, k) ==
  IF k = 0 THEN 0
  ELSE PromisesUpTo(ops, k - 1) + (IF ops[k].kind = "return" /\ isPromiseLike(ops[k].val) THEN 1 ELSE 0)

\* The calls of fn with each promise that fn creates given its identity: the
\* promises that follow those of base, in the order of the calls.
WithFreshPromises(ops, base) ==
  [k \in DOMAIN ops |->
     IF ops[k].kind = "return" /\ isPromiseLike(ops[k].val)
     THEN [kind |-> "return", val |-> PromiseVal(base + PromisesUpTo(ops, k))]
     ELSE ops[k]]

\* The index in mappedItems of the promise p.
IndexOfPromise(call, p) == CHOOSE k \in DOMAIN call.mapped : call.mapped[k] = PromiseVal(p)

\* filterMap(items, fn), where the k-th call of fn does ops[k]; a promise that
\* fn returns is new and still pending.
FilterMap(ops) ==
  /\ fm.state = "idle"
  /\ LET calls == WithFreshPromises(ops, Len(promises))
         r == filterMap(heap, calls)
         made == PromisesUpTo(calls, Len(r.mapped))
     IN /\ fm' = r
        /\ promises' = promises \o
             [i \in 1..made |-> [src |-> [state |-> "pending", val |-> Undefined],
                                 res |-> [state |-> "pending", val |-> Undefined]]]
        /\ last' = Call("filterMap", "", Undefined, "", Undefined, r.state, Undefined, r.mapped)
  /\ UNCHANGED <<heap, store>>

\* A promise that fn returned fulfils with x or rejects with v; the reaction
\* job that Promise.all registered on it is queued.
SettleItem(p, state, v) ==
  /\ p \in DOMAIN promises
  /\ promises[p].src.state = "pending"
  /\ promises' = [promises EXCEPT ![p].src = [state |-> state, val |-> v]]
  /\ fm' = IF fm.state \in {"pending", "fulfilled", "rejected"}
           THEN [fm EXCEPT !.jobs = Append(fm.jobs, p)] ELSE fm
  /\ last' = NoCall
  /\ UNCHANGED <<heap, store>>

\* The first queued reaction job of Promise.all(mappedItems).then(handleItems)
\* runs.
FilterMapReact ==
  /\ fm.jobs # <<>>
  /\ LET p == Head(fm.jobs)
     IN fm' = filterMapReaction(heap, fm, p, IndexOfPromise(fm, p), promises[p].src)
  /\ last' = NoCall
  /\ UNCHANGED <<heap, promises, store>>

-----------------------------------------------------------------------------
\* The conversion layer on synchronous operations: foreign errors, err, isErr
\* and attempt.

ErrorNames == {S_Error, S_CustomError}
ConvMessages == {<<>>, <<"A">>}
\* What an operation may return, throw, fulfil with or reject with, besides the
\* errors of the heap.
ConvValues == {Str(S_stringError), Str(<<" ", "s">>), Null, Undefined, NullProtoObject}

Next ==
  \/ \E name \in ErrorNames, m \in ConvMessages, c \in {Undefined} \cup Refs(heap) :
       ForeignError(name, m, c)
  \/ \E c \in {Undefined} \cup Refs(heap) : Err(<<"B">>, c)
  \/ \E kind \in {"return", "throw"}, v \in ConvValues \cup Refs(heap) :
       AttemptSync([kind |-> kind, val |-> v])

Spec == Init /\ [][Next]_vars

\* The conversion layer on asynchronous operations.
NextAsync ==
  \/ \E name \in ErrorNames, m \in ConvMessages, c \in {Undefined} \cup Refs(heap) :
       ForeignError(name, m, c)
  \/ \E c \in {Undefined} \cup Refs(heap) : Err(<<"B">>, c)
  \/ AttemptAsync
  \/ \E p \in DOMAIN promises, state \in {"fulfilled", "rejected"}, v \in ConvValues \cup Refs(heap) :
       Settle(p, state, v)
  \/ \E p \in DOMAIN promises : React(p)

SpecAsync == Init /\ [][NextAsync]_vars

-----------------------------------------------------------------------------
\* Properties of the conversion layer.

\* s has sub as a substring (String.prototype.includes)
Contains(s, sub) ==
  \E i \in 0..(Len(s) - Len(sub)) : SubSeq(s, i + 1, i + Len(sub)) = sub

\* The representation of a thrown value v: its message when v is an Error,
\* otherwise its string conversion.
Representation(h, v) == IF InstanceOfError(h, v) THEN h[v.n].message ELSE JSString(h, v).s

\* C1 as stated: whenever a synchronous operation returns x without throwing,
\* attempt returns exactly x and isErr of the result is false.
C1_ReturnIsNeverErr ==
  (last.op = "attempt" /\ last.kind = "return") =>
    /\ last.out = "returned"
    /\ last.ret = last.arg
    /\ ~isErr(heap, last.ret)

\* C1 (amended): whenever a synchronous operation returns a non-thenable x
\* without throwing, attempt returns exactly x, and isErr of the result is
\* true only when x itself is a CtxError.
C1_ReturnsExactValue ==
  (last.op = "attempt" /\ last.kind = "return") =>
    /\ last.out = "returned"
    /\ last.ret = last.arg
    /\ (isErr(heap, last.ret) <=> last.arg \in CtxRefs(heap))

C1_Witness ==
  /\ last.op = "attempt" /\ last.kind = "return"
  /\ last.arg = Str(S_stringError)
  /\ last.ret = Str(S_stringError)

\* C2: whenever a synchronous operation throws v, attempt returns (does not
\* throw) a CtxError whose messageChain contains the representation of v (as
\* messageChain renders it, trimmed).
C2_ThrowBecomesCtxError ==
  (last.op = "attempt" /\ last.kind = "throw") =>
    /\ last.out = "returned"
    /\ isErr(heap, last.ret)
    /\ Contains(messageChain(heap, last.ret.n), Trim(Representation(heap, last.arg)))

\* C3: the promise attempt returns never rejects; it fulfils with the value the
\* operation's promise fulfilled with, unchanged, and on a rejection with the
\* CtxError that the synchronous attempt makes of the same thrown value.
C3_AsyncMirrorsSync ==
  last.op = "react" =>
    /\ last.out = "fulfilled"
    /\ (last.kind = "fulfilled" => last.ret = last.arg)
    /\ (last.kind = "rejected" =>
          LET before == SubSeq(heap, 1, Len(heap) - ConvertAllocs(heap, last.arg))
              sync == attempt(before, [kind |-> "throw", val |-> last.arg])
          IN isErr(heap, last.ret) /\ sync.heap = heap /\ sync.ret = last.ret)

\* C4: no exception escapes attempt: it never throws, and the promise it
\* returns never rejects, whatever the operation throws or rejects with.
C4_NoExceptionEscapes ==
  /\ last.op = "attempt" => last.out # "threw"
  /\ \A p \in DOMAIN promises : promises[p].res.state # "rejected"

-----------------------------------------------------------------------------
\* Formatting: chains of foreign errors and err(...) errors, and messageChain.

\* The (name, message) pairs of the foreign errors, and the messages given to err.
FmtForeign == {<<S_Error, <<" ">>>>, <<S_Error, <<"A">>>>,
               <<S_CustomError, <<"X">>>>, <<S_CustomError, <<>>>>}
FmtMessages == {<<>>, <<"A">>, <<" ", "B">>}

NextFmt ==
  \/ \E f \in FmtForeign, c \in {Undefined} \cup Refs(heap) : ForeignError(f[1], f[2], c)
  \/ ForeignError(S_Error, <<"A">>, Str(<<"c">>))
  \/ \E m \in FmtMessages, c \in {Undefined} \cup Refs(heap) : Err(m, c)
  \/ \E e \in CtxRefs(heap) : MessageChain(e)

SpecFmt == Init /\ [][NextFmt]_vars

-----------------------------------------------------------------------------
\* Properties of messageChain.

\* The links of the chain of the error at index e: e itself, then each cause
\* that is an Error, down to the last.
RECURSIVE ChainLinks(_, _)
ChainLinks(h, e) ==
  <<e>> \o (IF InstanceOfError(h, h[e].cause) THEN ChainLinks(h, h[e].cause.n) ELSE <<>>)

\* The segment of each link: the receiver's own message, then every cause as
\* #prependErrorNameToMessage formats it.
LinkSegments(h, e) ==
  LET links == ChainLinks(h, e)
  IN [k \in 1..Len(links) |->
        IF k = 1 THEN h[e].message ELSE PrependErrorNameToMessage(h, Ref(links[k]))]

IsBlank(s) == Trim(s) = <<>>

NonBlankTrimmed(segs) == SelectSeq(MapTrim(segs), LAMBDA x : x # <<>>)

\* s cut at every occurrence of sep (String.prototype.split)
FirstIndexOf(s, sep) ==
  LET hits == {i \in 1..(Len(s) - Len(sep) + 1) : SubSeq(s, i, i + Len(sep) - 1) = sep}
  IN IF hits = {} THEN 0 ELSE CHOOSE i \in hits : \A j \in hits : i <= j

RECURSIVE Split(_, _)
Split(s, sep) ==
  LET i == FirstIndexOf(s, sep)
  IN IF i = 0 THEN <<s>>
     ELSE <<SubSeq(s, 1, i - 1)>> \o Split(SubSeq(s, i + Len(sep), Len(s)), sep)

\* C5 as stated: messageChain has one segment per link of the chain, in chain
\* order, joined by " -> ".
C5_OneSegmentPerLink ==
  last.op = "messageChain" =>
    last.ret.s = Join(LinkSegments(heap, last.recv.n), S_Arrow)

\* C5 (amended): messageChain lists, in chain order and joined by " -> ", the
\* trimmed segment of every link (CtxError or plain Error) whose segment is not
\* blank, and is "Unknown error" when every segment is blank.
C5_SegmentsInChainOrder ==
  last.op = "messageChain" =>
    LET kept == NonBlankTrimmed(LinkSegments(heap, last.recv.n))
    IN last.ret.s = IF kept = <<>> THEN S_UnknownError ELSE Join(kept, S_Arrow)

\* err("A", new Error("A", { cause: ... })) called on a chain of three links, one
\* of them a plain Error, none blank: the chain has three segments.
C5_Witness ==
  /\ last.op = "messageChain"
  /\ Len(ChainLinks(heap, last.recv.n)) = 3
  /\ \E k \in 2..3 : heap[ChainLinks(heap, last.recv.n)[k]].cls = "Error"
  /\ \A k \in 1..3 : ~IsBlank(LinkSegments(heap, last.recv.n)[k])
  /\ Len(Split(last.ret.s, S_Arrow)) = 3

\* An error made by err(m) with no cause.
IsErrWithoutCause(h, e) ==
  h[e].cls = "CtxError" /\ h[e].name = S_CtxError /\ h[e].cause = Undefined

\* C6 as stated: for every message m, err(m).messageChain equals m.
C6_ChainOfErrIsMessage ==
  (last.op = "messageChain" /\ IsErrWithoutCause(heap, last.recv.n)) =>
    last.ret.s = heap[last.recv.n].message

\* C6 (amended): err(m).messageChain equals m with surrounding white space
\* trimmed, and "Unknown error" when m is empty or only white space.
C6_ChainOfErrIsTrimmedMessage ==
  (last.op = "messageChain" /\ IsErrWithoutCause(heap, last.recv.n)) =>
    last.ret.s = IF IsBlank(heap[last.recv.n].message) THEN S_UnknownError
                 ELSE Trim(heap[last.recv.n].message)

C6_Witness ==
  /\ last.op = "messageChain"
  /\ IsErrWithoutCause(heap, last.recv.n)
  /\ heap[last.recv.n].message = <<" ", "B">>
  /\ last.ret = Str(<<"B">>)

\* C7: messageChain is never empty or only white space; no segment of it is
\* blank (a blank link is left out, so " -> " is never doubled), it has as
\* many segments as the chain has non-blank links, and it is exactly
\* "Unknown error" when every link is blank.
C7_NeverBlank ==
  last.op = "messageChain" =>
    LET segs == LinkSegments(heap, last.recv.n)
        nonBlank == {k \in DOMAIN segs : ~IsBlank(segs[k])}
        parts == Split(last.ret.s, S_Arrow)
    IN /\ ~IsBlank(last.ret.s)
       /\ \A k \in DOMAIN parts : ~IsBlank(parts[k])
       /\ nonBlank # {} => Len(parts) = Cardinality(nonBlank)
       /\ nonBlank = {} => last.ret.s = S_UnknownError

\* A chain with a blank link between two non-blank ones.
C7_Witness ==
  /\ last.op = "messageChain"
  /\ LET segs == LinkSegments(heap, last.recv.n)
     IN /\ Len(segs) = 3
        /\ ~IsBlank(segs[1]) /\ IsBlank(segs[2]) /\ ~IsBlank(segs[3])
  /\ Len(Split(last.ret.s, S_Arrow)) = 2

\* The rendering C8 gives for the cause at index c.
RenderCause(h, c) ==
  IF h[c].name \notin {S_Error, S_CtxError}
  THEN h[c].name \o S_ColonSpace \o h[c].message
  ELSE h[c].message

\* messageChain was called on an error with a non-blank message whose cause is
\* an Error that has no Error cause of its own.
CalledOnTwoLinkChain ==
  /\ last.op = "messageChain"
  /\ ~IsBlank(heap[last.recv.n].message)
  /\ Len(ChainLinks(heap, last.recv.n)) = 2

\* C8 as stated: a cause named neither "Error" nor "CtxError" renders as
\* "<name>: <message>", a cause named "Error" or "CtxError" as its message alone
\* (a blank rendering being left out).
C8_CauseRendering ==
  CalledOnTwoLinkChain =>
    LET m == Trim(heap[last.recv.n].message)
        r == RenderCause(heap, heap[last.recv.n].cause.n)
    IN last.ret.s = IF IsBlank(r) THEN m ELSE m \o S_Arrow \o r

\* C8 (amended): a cause named neither "Error" nor "CtxError" renders as
\* "<name>: <message>" with surrounding white space trimmed (so as "<name>:"
\* when its message is empty), a cause named "Error" or "CtxError" as its
\* trimmed message alone (a blank rendering being left out).
C8_CauseRenderingTrimmed ==
  CalledOnTwoLinkChain =>
    LET m == Trim(heap[last.recv.n].message)
        r == Trim(RenderCause(heap, heap[last.recv.n].cause.n))
    IN last.ret.s = IF r = <<>> THEN m ELSE m \o S_Arrow \o r

C8_Witness ==
  /\ CalledOnTwoLinkChain
  /\ heap[heap[last.recv.n].cause.n].name = S_CustomError
  /\ heap[heap[last.recv.n].cause.n].message = <<"X">>
  /\ last.ret.s = <<"A">> \o S_Arrow \o S_CustomError \o <<":", " ", "X">>

-----------------------------------------------------------------------------
\* Context: chains of err(...) errors and foreign errors, ctx and get.

\* The values stored under the key "shared" along chains that may hold plain
\* Error links.
CtxValues == {Undefined, Str(<<"t">>), Str(<<"d">>)}
CtxMaps == {[k \in {"shared"} |-> v] : v \in CtxValues}

NextCtx ==
  \/ \E c \in {Undefined} \cup Refs(heap) : ForeignError(S_Error, <<"A">>, c)
  \/ \E c \in {Undefined} \cup Refs(heap) : Err(<<"A">>, c)
  \/ \E e \in CtxRefs(heap), m \in CtxMaps : Ctx(e, m)
  \/ \E e \in CtxRefs(heap) : Get(e, "shared")

SpecCtx == Init /\ [][NextCtx]_vars

\* Context values of every kind, falsy ones included, along chains of at most
\* MaxLinks err(...) errors.
StoredValues == {Undefined, Null, Num(0), Str(<<>>), Bool(FALSE), Str(<<"v">>)}
StoredMaps == {[k \in {"shared"} |-> v] : v \in StoredValues}

NextCtxValues ==
  \/ \E c \in {Undefined} \cup Refs(heap) : Len(heap) < MaxLinks /\ Err(<<"A">>, c)
  \/ \E e \in CtxRefs(heap), m \in StoredMaps : Ctx(e, m)
  \/ \E e \in CtxRefs(heap) : Get(e, "shared")

SpecCtxValues == Init /\ [][NextCtxValues]_vars

-----------------------------------------------------------------------------
\* Properties of get.

\* The object o stores the key in its own context (whatever the value).
StoresKey(o, key) == o.context.has /\ key \in DOMAIN o.context.map

\* The CtxError links get can reach from the error at index e: e itself, then
\* each cause for as long as it is a CtxError.
RECURSIVE CtxRun(_, _)
CtxRun(h, e) ==
  <<e>> \o (IF InstanceOfCtxError(h, h[e].cause) THEN CtxRun(h, h[e].cause.n) ELSE <<>>)

\* Every CtxError link of the whole cause chain of e, shallowest first.
AllCtxLinks(h, e) == SelectSeq(ChainLinks(h, e), LAMBDA i : h[i].cls = "CtxError")

\* The positions in links of the links that store the key.
Holders(h, links, key) == {k \in DOMAIN links : StoresKey(h[links[k]], key)}

\* The positions in links of the links that store a value other than undefined.
DefinedHolders(h, links, key) ==
  {k \in Holders(h, links, key) : h[links[k]].context.map[key] # Undefined}

Deepest(S) == CHOOSE k \in S : \A j \in S : j <= k

StoredAt(h, links, k, key) == h[links[k]].context.map[key]

C10_DeepestKeyShadows ==
  last.op = "get" =>
    LET links == CtxRun(heap, last.recv.n)
        holders == Holders(heap, links, last.key)
    IN \A v \in StoredValues :
         (holders # {} /\ StoredAt(heap, links, Deepest(holders), last.key) = v)
           => last.ret = v

\* C10 (amended): for every stored value v other than undefined (0, "", false
\* and null included), when the deepest link that has the key stores v,
\* get(key) returns v.
C10_DeepestDefinedKeyShadows ==
  last.op = "get" =>
    LET links == CtxRun(heap, last.recv.n)
        holders == Holders(heap, links, last.key)
    IN \A v \in StoredValues \ {Undefined} :
         (holders # {} /\ StoredAt(heap, links, Deepest(holders), last.key) = v)
           => last.ret = v

\* A falsy value stored on the deepest link shadows a truthy one stored on top.
C10_Witness ==
  /\ last.op = "get"
  /\ LET links == CtxRun(heap, last.recv.n)
     IN /\ Len(links) >= 2
        /\ StoresKey(heap[links[1]], last.key)
        /\ Truthy(StoredAt(heap, links, 1, last.key))
        /\ StoresKey(heap[links[Len(links)]], last.key)
        /\ StoredAt(heap, links, Len(links), last.key) \in {Null, Num(0), Str(<<>>), Bool(FALSE)}
        /\ last.ret = StoredAt(heap, links, Len(links), last.key)

-----------------------------------------------------------------------------
\* Context: ctx and getAll along chains of err(...) errors and foreign errors.

GetAllValues == {Undefined, Num(0), Str(<<"v">>)}
GetAllMaps == {[k \in {"shared"} |-> v] : v \in GetAllValues}

NextGetAll ==
  \/ \E c \in {Undefined} \cup Refs(heap) : ForeignError(S_Error, <<"A">>, c)
  \/ \E c \in {Undefined} \cup Refs(heap) : Err(<<"A">>, c)
  \/ \E e \in CtxRefs(heap), m \in GetAllMaps : Ctx(e, m)
  \/ \E e \in CtxRefs(heap) : GetAll(e, "shared")

SpecGetAll == Init /\ [][NextGetAll]_vars

\* The values stored for key on the links that store it, in the order of links.
StoredAlong(h, links, key) ==
  LET holding == SelectSeq(links, LAMBDA i : StoresKey(h[i], key))
  IN [k \in 1..Len(holding) |-> h[holding[k]].context.map[key]]

-----------------------------------------------------------------------------
\* Context merging: err, errWithCtx and ctx with maps of one or two keys, over
\* at most MaxLinks errors.

MergeMaps == {[k \in {"a"} |-> Num(1)], [k \in {"a"} |-> Num(2)], [k \in {"b"} |-> Num(1)],
              [k \in {"a", "b"} |-> Num(2)]}
MergeMessages == {<<>>, <<"A">>}

NextMerge ==
  \/ Len(heap) < MaxLinks /\ ForeignError(S_CustomError, <<"X">>, Undefined)
  \/ \E m \in MergeMessages, c \in {Undefined} \cup Refs(heap) :
       Len(heap) < MaxLinks /\ Err(m, c)
  \/ \E d \in MergeMaps, m \in MergeMessages, c \in {Undefined} \cup Refs(heap) :
       Len(heap) < MaxLinks /\ ErrWithCtx(d, m, c)
  \/ \E e \in CtxRefs(heap), m \in MergeMaps : Ctx(e, m)

SpecMerge == Init /\ [][NextMerge]_vars

\* prev merged with m, m's value on a key of both.
MergedOver(prev, m) ==
  [k \in (DOMAIN prev) \cup (DOMAIN m) |-> IF k \in DOMAIN m THEN m[k] ELSE prev[k]]

\* C12: a ctx(m) call returns its receiver, creates no object and changes
\* nothing but the receiver's context, which afterwards is the previous context
\* merged with m, m's value winning on a key of both.
C12_CtxMergesInPlace ==
  [][last'.op = "ctx" =>
       LET n == last'.recv.n
           m == last'.list[1]
       IN /\ last'.out = "returned"
          /\ last'.ret = last'.recv
          /\ Len(heap') = Len(heap)
          /\ \A i \in DOMAIN heap : i # n => heap'[i] = heap[i]
          /\ heap'[n] = [heap[n] EXCEPT !.context = heap'[n].context]
          /\ heap'[n].context.has
          /\ heap'[n].context.map = MergedOver(heap[n].context.map, m)]_vars

\* ctx({a: 2}) was called on an error whose context was {a: 1, b: 1}: the
\* context is now {a: 2, b: 1}.
C12_Witness ==
  /\ last.op = "ctx"
  /\ last.list = <<[k \in {"a"} |-> Num(2)]>>
  /\ heap[last.recv.n].context.map = [k \in {"a", "b"} |-> IF k = "a" THEN Num(2) ELSE Num(1)]

\* C13: errWithCtx(d)(m, c) returns a new CtxError with the message, cause and
\* formatted chain of err(m, c) and with context d; a ctx(x) call made on it
\* next leaves it with d merged with x, x's value winning.
C13_ErrWithCtxIsErrPlusContext ==
  [][/\ last'.op = "errWithCtx" =>
          LET n == last'.ret.n
              d == last'.list[1]
              plain == err(heap, last'.list[2], last'.arg)
          IN /\ n = Len(heap) + 1
             /\ Len(heap') = n
             /\ isErr(heap', last'.ret)
             /\ heap'[n].message = plain.message
             /\ heap'[n].cause = plain.cause
             /\ heap'[n].name = plain.name
             /\ messageChain(heap', n) = messageChain(Append(heap, plain), n)
             /\ heap'[n].context.has
             /\ heap'[n].context.map = d
     /\ (last.op = "errWithCtx" /\ last'.op = "ctx" /\ last'.recv = last.ret) =>
          heap'[last.ret.n].context.map = MergedOver(last.list[1], last'.list[1])]_vars

\* errWithCtx({a: 1})("A", c) has just wrapped the foreign error c.
C13_Witness ==
  /\ last.op = "errWithCtx"
  /\ last.list = <<[k \in {"a"} |-> Num(1)], <<"A">>>>
  /\ InstanceOfError(heap, last.arg)
  /\ heap[last.arg.n].cls = "Error"
  /\ heap[last.ret.n].cause = last.arg
  /\ heap[last.ret.n].context.map = [k \in {"a"} |-> Num(1)]
  /\ messageChain(heap, last.ret.n) = <<"A">> \o S_Arrow \o S_CustomError \o <<":", " ", "X">>

-----------------------------------------------------------------------------
\* isErr on what err, errWithCtx, attempt and foreign code produce, and on
\* values that are no errors.

IsErrValues == {Undefined, Null, Num(42), Str(<<"x">>), Bool(TRUE), NullProtoObject}

NextIsErr ==
  \/ \E c \in {Undefined} \cup Refs(heap) : ForeignError(S_CustomError, <<"X">>, c)
  \/ \E c \in {Undefined} \cup Refs(heap) : Err(<<"x">>, c)
  \/ \E c \in {Undefined} \cup Refs(heap) : ErrWithCtx([k \in {"a"} |-> Num(1)], <<"y">>, c)
  \/ \E v \in {Str(S_stringError), NullProtoObject} \cup Refs(heap) :
       AttemptSync([kind |-> "throw", val |-> v])
  \/ \E v \in IsErrValues \cup Refs(heap) : IsErr(v)

SpecIsErr == Init /\ [][NextIsErr]_vars

\* C14: isErr(x) is true exactly when x is a CtxError instance: true for what
\* err, errWithCtx and the error branch of attempt return, false for a plain
\* Error, for undefined and for every other value.
C14_IsErrExactlyCtxError ==
  /\ last.op = "isErr" =>
       /\ last.out = "returned"
       /\ last.ret = Bool(last.arg \in CtxRefs(heap))
       /\ last.arg \in IsErrValues => last.ret = Bool(FALSE)
       /\ (last.arg \in Refs(heap) /\ heap[last.arg.n].cls = "Error") => last.ret = Bool(FALSE)
  /\ (\/ last.op \in {"err", "errWithCtx"}
      \/ last.op = "attempt" /\ last.kind = "throw" /\ last.out = "returned")
       => isErr(heap, last.ret)

\* isErr was called on a plain Error while the heap also holds a CtxError that
\* attempt made of a thrown error.
C14_Witness ==
  /\ last.op = "isErr"
  /\ last.arg \in Refs(heap)
  /\ heap[last.arg.n].cls = "Error"
  /\ last.ret = Bool(FALSE)
  /\ \E i \in DOMAIN heap : heap[i].cls = "CtxError" /\ heap[i].name = S_CustomError

-----------------------------------------------------------------------------
\* filterMap over at most MaxItems items, where fn returns undefined, a number,
\* a plain Error, one of the errors made by err, or a promise, or throws.

\* What the k-th call of fn may do.
ItemOps(h, k) ==
  {[kind |-> "return", val |-> v] : v \in {Undefined, Num(2 * k), PromiseVal(0)} \cup Refs(h)}
    \cup {[kind |-> "throw", val |-> Str(<<"t">>)]}

\* What the promise p may fulfil with.
ItemValues(h, p) == {Undefined, Num(10 + p)} \cup CtxRefs(h)

NextFilterMap ==
  \/ Len(heap) < MaxLinks /\ fm.state = "idle" /\ ForeignError(S_Error, <<"A">>, Undefined)
  \/ Len(heap) < MaxLinks /\ fm.state = "idle" /\ Err(<<"B">>, Undefined)
  \/ /\ fm.state = "idle"
     /\ \E n \in 0..MaxItems :
          \E ops \in [1..n -> UNION {ItemOps(heap, k) : k \in 1..MaxItems}] :
            /\ \A k \in 1..n : ops[k] \in ItemOps(heap, k)
            /\ FilterMap(ops)
  \/ \E p \in DOMAIN promises :
       \/ \E v \in ItemValues(heap, p) : SettleItem(p, "fulfilled", v)
       \/ SettleItem(p, "rejected", Str(<<"r">>))
  \/ FilterMapReact

SpecFilterMap == Init /\ [][NextFilterMap]_vars

-----------------------------------------------------------------------------
\* Properties of filterMap.

\* The call has an outcome { values, errors }: returned, or the fulfilment
\* value of the promise returned.
HasOutcome == fm.state \in {"returned", "fulfilled"}

\* The k-th per-item result is a promise.
IsEventual(k) == fm.mapped[k].t = "promise"

\* The k-th per-item result has completed, has failed.
ItemCompleted(k) == IsEventual(k) => promises[fm.mapped[k].n].src.state # "pending"
ItemFailed(k) == IsEventual(k) /\ promises[fm.mapped[k].n].src.state = "rejected"

\* The k-th per-item result, awaited.
ItemResult(k) == IF IsEventual(k) THEN promises[fm.mapped[k].n].src.val ELSE fm.mapped[k]

\* The per-item results of the items of the set K, in input order.
ItemResults(K) ==
  LET ks == SelectSeq([k \in 1..Len(fm.mapped) |-> k], LAMBDA k : k \in K)
  IN [i \in 1..Len(ks) |-> ItemResult(ks[i])]

\* The results that belong in values, in errors, keeping their order.
ValuesOf(results) == SelectSeq(results, LAMBDA r : r # Undefined /\ r \notin CtxRefs(heap))
ErrorsOf(results) == SelectSeq(results, LAMBDA r : r \in CtxRefs(heap))

\* C15: in an outcome of filterMap every per-item result is in exactly one
\* place: undefined in neither output, a CtxError in errors, anything else in
\* values, and values and errors each keep the input order without holes.
C15_PartitionInInputOrder ==
  HasOutcome =>
    LET results == ItemResults(DOMAIN fm.mapped)
    IN /\ fm.outcome.values = ValuesOf(results)
       /\ fm.outcome.errors.list = ErrorsOf(results)
       /\ Len(fm.outcome.values) + Len(fm.outcome.errors.list)
            = Cardinality({k \in DOMAIN results : results[k] # Undefined})

\* filterMap([1, 2, 3], i => i === 2 ? err("bad") : i * 2) gave values [2, 6]
\* and errors holding only the "bad" error.
C15_Witness ==
  /\ fm.state = "returned"
  /\ Len(fm.mapped) = 3
  /\ fm.mapped[1] = Num(2) /\ fm.mapped[2] \in CtxRefs(heap) /\ fm.mapped[3] = Num(6)
  /\ fm.outcome.values = <<Num(2), Num(6)>>
  /\ fm.outcome.errors = ErrorsArray(<<fm.mapped[2]>>)

\* C16: in every outcome of filterMap values is a sequence, and errors is
\* undefined exactly when no per-item result is a CtxError, a non-empty
\* sequence otherwise.
C16_ErrorsAbsentWithoutErrors ==
  HasOutcome =>
    LET results == ItemResults(DOMAIN fm.mapped)
    IN /\ DOMAIN fm.outcome.values = 1..Len(fm.outcome.values)
       /\ fm.outcome.errors.defined <=> (\E k \in DOMAIN results : results[k] \in CtxRefs(heap))
       /\ fm.outcome.errors.defined => Len(fm.outcome.errors.list) > 0
       /\ ~fm.outcome.errors.defined => fm.outcome.errors = NoErrors

\* No item gave a CtxError, one was omitted, one was a plain Error: values
\* holds the plain Error and errors is undefined.
C16_Witness ==
  /\ HasOutcome
  /\ Len(fm.mapped) = 2
  /\ fm.outcome.values = <<ItemResult(2)>>
  /\ ItemResult(1) = Undefined
  /\ ItemResult(2) \in Refs(heap)
  /\ fm.outcome.errors = NoErrors

C18_PartialFailure ==
  fm.state \notin {"idle", "threw"} =>
    /\ fm.calls = [k \in 1..Len(fm.mapped) |-> k]
    /\ ((\A k \in DOMAIN fm.mapped : ItemCompleted(k)) /\ fm.jobs = <<>>) =>
         LET results == ItemResults({k \in DOMAIN fm.mapped : ~ItemFailed(k)})
         IN /\ HasOutcome
            /\ fm.outcome.values = ValuesOf(results)
            /\ fm.outcome.errors.list = ErrorsOf(results)

-----------------------------------------------------------------------------
\* Chains built by err, errWithCtx, attempt and ctx over foreign errors whose
\* own chains are acyclic, and the four traversals of a chain.

NextChain ==
  \/ \E c \in {Undefined} \cup Refs(heap) : ForeignError(S_CustomError, <<"X">>, c)
  \/ \E c \in {Undefined} \cup Refs(heap) : Err(<<"A">>, c)
  \/ \E c \in {Undefined} \cup Refs(heap) : ErrWithCtx([k \in {"a"} |-> Num(1)], <<"A">>, c)
  \/ \E v \in {Str(S_stringError)} \cup Refs(heap) : AttemptSync([kind |-> "throw", val |-> v])
  \/ \E e \in CtxRefs(heap) : Ctx(e, [k \in {"a"} |-> Num(1)])
  \/ \E e \in CtxRefs(heap) : MessageChain(e)
  \/ \E e \in CtxRefs(heap) : RootStack(e)
  \/ \E e \in CtxRefs(heap) : Get(e, "a")
  \/ \E e \in CtxRefs(heap) : GetAll(e, "a")

SpecChain == Init /\ [][NextChain]_vars

\* C19: every error has at most one direct cause, absent or an error created
\* before it, so the cause relation is finite and acyclic; every call of
\* messageChain, rootStack, get and getAll returns, having walked a chain of
\* distinct links.
C19_CauseChainsAcyclic ==
  /\ \A i \in DOMAIN heap :
       /\ heap[i].cause \in {Undefined} \cup Refs(heap)
       /\ heap[i].cause # Undefined => heap[i].cause.n < i
  /\ last.op \in {"messageChain", "rootStack", "get", "getAll"} =>
       LET links == ChainLinks(heap, last.recv.n)
       IN /\ last.out = "returned"
          /\ Len(links) <= Len(heap)
          /\ \A j, k \in DOMAIN links : j # k => links[j] # links[k]

\* rootStack was read on the CtxError that attempt made of a thrown
\* CustomError that has a cause.
C19_Witness ==
  /\ last.op = "rootStack"
  /\ LET links == ChainLinks(heap, last.recv.n)
     IN /\ Len(links) = 2
        /\ heap[links[1]].name = S_CustomError
        /\ heap[links[1]].stack = ForeignFrames
        /\ last.ret = Str(cleanStack(StackText(ForeignFrames)))

-----------------------------------------------------------------------------
\* attempt on thrown errors of every shape: named or not, with or without a
\* message, a stack, a cause that is an Error or a cause that is none.

CopyStacks == {ForeignFrames, <<>>}

NextCopy ==
  \/ \E name \in ErrorNames, m \in ConvMessages, st \in CopyStacks,
        c \in {Undefined, Str(<<"c">>)} \cup Refs(heap) :
       ForeignErrorStack(name, m, c, st)
  \/ \E c \in {Undefined} \cup Refs(heap) : Err(<<"B">>, c)
  \/ \E v \in {Str(S_stringError), Null} \cup Refs(heap) :
       AttemptSync([kind |-> "throw", val |-> v])

SpecCopy == Init /\ [][NextCopy]_vars

\* The formatted chain made of the segments segs.
ChainOf(segs) ==
  IF NonBlankTrimmed(segs) = <<>> THEN S_UnknownError ELSE Join(NonBlankTrimmed(segs), S_Arrow)

\* attempt has returned a CtxError for the thrown value last.arg.
AttemptConverted == last.op = "attempt" /\ last.kind = "throw" /\ last.out = "returned"

\* What C20 says of name, message, cause and chain: for a thrown Error t they
\* are t's, the cause only when it is an Error, and the chain has as many links
\* and the same segments as t's; for a thrown value that is no Error the name is
\* "Error" and the chain is the one link.
CopiesAllButStack ==
  LET r == heap[last.ret.n]
  IN /\ isErr(heap, last.ret)
     /\ IF InstanceOfError(heap, last.arg)
        THEN LET t == heap[last.arg.n]
             IN /\ last.ret # last.arg
                /\ r.name = t.name
                /\ r.message = t.message
                /\ r.cause = (IF InstanceOfError(heap, t.cause) THEN t.cause ELSE Undefined)
                /\ Len(ChainLinks(heap, last.ret.n)) = Len(ChainLinks(heap, last.arg.n))
                /\ messageChain(heap, last.ret.n) = ChainOf(LinkSegments(heap, last.arg.n))
        ELSE /\ r.name = S_Error
             /\ r.message = JSString(heap, last.arg).s
             /\ r.cause = Undefined
             /\ Len(ChainLinks(heap, last.ret.n)) = 1
             /\ messageChain(heap, last.ret.n) = ChainOf(<<r.message>>)

\* C20 as stated: the CtxError that attempt returns for a thrown Error t has
\* t's name, message, stack and Error cause and a chain with no link or segment
\* more than t's; for a thrown value that is no Error its name is "Error".
C20_AttemptCopiesThrown ==
  AttemptConverted =>
    /\ CopiesAllButStack
    /\ InstanceOfError(heap, last.arg) => heap[last.ret.n].stack = heap[last.arg.n].stack

\* C20 (amended): as stated, except that t's stack is copied only when t has a
\* stack; when t has none the CtxError keeps the stack captured at its own
\* construction.
C20_AttemptCopiesThrownStackIfAny ==
  AttemptConverted =>
    /\ CopiesAllButStack
    /\ InstanceOfError(heap, last.arg) =>
         heap[last.ret.n].stack = (IF heap[last.arg.n].stack # <<>>
                                   THEN heap[last.arg.n].stack ELSE AttemptFrames)

\* attempt converted a thrown CustomError that has a message, a stack and a
\* cause that is an Error.
C20_Witness ==
  /\ AttemptConverted
  /\ InstanceOfError(heap, last.arg)
  /\ heap[last.arg.n].name = S_CustomError
  /\ heap[last.arg.n].message = <<"A">>
  /\ heap[last.arg.n].stack = ForeignFrames
  /\ InstanceOfError(heap, heap[last.arg.n].cause)
  /\ heap[last.ret.n].cause = heap[last.arg.n].cause
  /\ heap[last.ret.n].stack = ForeignFrames

-----------------------------------------------------------------------------
\* Chains with plain Error links in the middle: ctx, get, getAll and
\* messageChain.

BelowMaps == {[k \in {"shared"} |-> v] : v \in {Str(<<"t">>), Str(<<"d">>)}}

NextBelow ==
  \/ \E c \in {Undefined} \cup Refs(heap) : ForeignError(S_Error, <<"P">>, c)
  \/ \E c \in {Undefined} \cup Refs(heap) : Err(<<"A">>, c)
  \/ \E e \in CtxRefs(heap), m \in BelowMaps : Ctx(e, m)
  \/ \E e \in CtxRefs(heap) : Get(e, "shared")
  \/ \E e \in CtxRefs(heap) : GetAll(e, "shared")
  \/ \E e \in CtxRefs(heap) : MessageChain(e)

SpecBelow == Init /\ [][NextBelow]_vars

\* The links of the chain of e that lie below its first plain Error link.
BelowPlain(h, e) ==
  LET links == ChainLinks(h, e)
      plain == {k \in DOMAIN links : h[links[k]].cls = "Error"}
  IN IF plain = {} THEN {}
     ELSE {links[k] : k \in {j \in DOMAIN links : \E q \in plain : q < j}}

\* The heap with the context of every link below the first plain Error of the
\* chain of e taken away.
WithoutContextBelowPlain(h, e) ==
  [i \in DOMAIN h |-> IF i \in BelowPlain(h, e) THEN [h[i] EXCEPT !.context = NoContext] ELSE h[i]]

-----------------------------------------------------------------------------
\* rootStack over chains whose links have a trace, a blank trace or none, made
\* by err called from plain and from oddly named functions, by attempt and by
\* new Error.

ErrInFrames == <<"Error", "at new CtxError", "at err", "at attemptLogin", "at caller">>
HandlerFrames == <<"Error", "at errorHandler", "at caller">>
ErrStacks == {ErrFrames, ErrInFrames, <<>>}
ThrownStacks == {ForeignFrames, HandlerFrames, <<"blank">>, <<>>}

NextStack ==
  \/ \E st \in ThrownStacks, c \in {Undefined} \cup Refs(heap) :
       ForeignErrorStack(S_Error, <<"P">>, c, st)
  \/ \E st \in ErrStacks, c \in {Undefined} \cup Refs(heap) : ErrIn(<<"A">>, c, st)
  \/ \E v \in Refs(heap) : AttemptSync([kind |-> "throw", val |-> v])
  \/ \E e \in CtxRefs(heap) : RootStack(e)

SpecStack == Init /\ [][NextStack]_vars

\* The trace of the object at index i is not blank.
HasStack(h, i) == ~IsBlank(StackText(h[i].stack))

\* The links of the chain of e that have a trace that is not blank.
LinksWithStack(h, e) == SelectSeq(ChainLinks(h, e), LAMBDA i : HasStack(h, i))

\* C22: rootStack returns the cleaned stack of the deepest link of the cause
\* chain that has a non-blank stack, and returns "<no stack>" exactly when no
\* link of the chain has a non-blank stack.
C22_RootStackIsDeepestStack ==
  last.op = "rootStack" =>
    LET with == LinksWithStack(heap, last.recv.n)
    IN IF with = <<>> THEN last.ret = Str(S_noStack)
       ELSE /\ last.ret = Str(cleanStack(StackText(heap[with[Len(with)]].stack)))
            /\ last.ret # Str(S_noStack)

\* rootStack was read on a chain of three links whose deepest link has a blank
\* trace: the trace returned is that of the middle link, not the receiver's.
C22_Witness ==
  /\ last.op = "rootStack"
  /\ LET links == ChainLinks(heap, last.recv.n)
     IN /\ Len(links) = 3
        /\ ~HasStack(heap, links[3])
        /\ HasStack(heap, links[2])
        /\ HasStack(heap, links[1])
        /\ heap[links[2]].stack # heap[links[1]].stack
        /\ last.ret = Str(cleanStack(StackText(heap[links[2]].stack)))
        /\ last.ret # Str(cleanStack(StackText(heap[links[1]].stack)))

\* rootStack was read on a chain none of whose links has a trace.
C22_NoStackReached ==
  /\ last.op = "rootStack"
  /\ Len(ChainLinks(heap, last.recv.n)) = 2
  /\ last.ret = Str(S_noStack)

\* The lines that the constructor, err and attempt leave in a trace.
InternalFrames == {"at new CtxError", "at err", "at attempt"}

\* The lines of a trace without the internal-construction frames, as rootStack
\* lays them out.
WithoutInternalFrames(stack) ==
  LET kept == SelectSeq(stack, LAMBDA line : line \notin InternalFrames)
  IN Join([i \in 1..Len(kept) |-> Trim(LineText(kept[i]))], S_LineJoin)

\* C23: the cleaning done by rootStack removes from the selected trace exactly
\* the frames of the CtxError constructor, of err and of attempt, and keeps
\* every other line, frames of caller functions included, in their order.
C23_CleaningRemovesOnlyInternalFrames ==
  last.op = "rootStack" =>
    LET with == LinksWithStack(heap, last.recv.n)
    IN with # <<>> =>
         last.ret = Str(WithoutInternalFrames(heap[with[Len(with)]].stack))

-----------------------------------------------------------------------------
\* err given causes that are not Errors: strings, empty or not, null and 0.

NonErrorCauses == {Undefined, Null, Num(0), Str(<<>>), Str(<<"s">>)}

NextNonError ==
  \/ \E m \in {<<"B">>, <<>>}, c \in NonErrorCauses \cup Refs(heap) : Err(m, c)
  \/ \E c \in {Undefined} \cup Refs(heap) : ForeignError(S_CustomError, <<"X">>, c)
  \/ \E e \in CtxRefs(heap) : MessageChain(e)

SpecNonError == Init /\ [][NextNonError]_vars

\* The chain that the segments given make: the blank ones dropped, the others
\* trimmed and joined by " -> ".
ChainOfSegments(segments) ==
  LET kept == NonBlankTrimmed(segments)
  IN IF kept = <<>> THEN S_UnknownError ELSE Join(kept, S_Arrow)

\* C24: err(m, c) normalizes a cause that is not an Error: a falsy cause is no
\* cause, and a non-empty string cause s is the segment s of the formatted
\* chain (err("B", "s") formats as "B -> s").
C24_NonErrorCauseIsNormalized ==
  /\ (last.op = "err" /\ ~Truthy(last.arg)) => heap[last.ret.n].cause = Undefined
  /\ last.op = "messageChain" =>
       LET e == heap[last.recv.n]
       IN /\ e.cause = Undefined => last.ret = Str(ChainOfSegments(<<e.message>>))
          /\ e.cause.t = "string" =>
               last.ret = Str(ChainOfSegments(<<e.message, e.cause.s>>))

\* What the code does with a string cause: the segment is "undefined: undefined".
C24_StringCauseRendersUndefined ==
  (last.op = "messageChain" /\ heap[last.recv.n].cause.t = "string") =>
    last.ret = Str(ChainOfSegments(<<heap[last.recv.n].message,
                                     S_undefined \o S_ColonSpace \o S_undefined>>))

-----------------------------------------------------------------------------
\* fmtErr(message?), the formatter of the CtxError whose err takes a cause of
\* any kind and stores it as it is.

\* new CtxError(message, { cause }) of that class: the cause kept whatever it is
CtxErrorWithAnyCause(message, cause) ==
  [cls |-> "CtxError", name |-> S_CtxError, message |-> message, cause |-> cause,
   context |-> NoContext, stack |-> ErrFrames]

\* The while loop of fmtErr: the messages pushed from currentCause on.
RECURSIVE fmtErrCauseMessages(_, _)
fmtErrCauseMessages(h, currentCause) ==
  IF ~Truthy(currentCause) THEN <<>>
  ELSE IF InstanceOfError(h, currentCause)
       THEN LET name == h[currentCause.n].name
                shouldShowName == name # S_Error /\ name # S_CtxError
                prefix == IF shouldShowName THEN name \o S_ColonSpace ELSE <<>>
            IN <<Str(prefix \o h[currentCause.n].message)>>
               \o fmtErrCauseMessages(h, h[currentCause.n].cause)
       ELSE <<Str(JSString(h, currentCause).s)>>

\* fmtErr that leaves the message it is given out of the list.
fmtErr_NoPrepend(h, e, message) ==
  LET messages == <<Str(h[e].message)>> \o fmtErrCauseMessages(h, h[e].cause)
      filteredMessages == SelectSeq(messages, LAMBDA msg : msg.t = "string" /\ Trim(msg.s) # <<>>)
  IN IF Len(filteredMessages) > 0
     THEN Join([i \in 1..Len(filteredMessages) |-> filteredMessages[i].s], S_Arrow)
     ELSE S_UnknownError

\* fmtErr(message) on the CtxError at index e: the message given, the own
\* message and the messages of the causes; those that trim to nothing dropped,
\* the others joined as they are
fmtErr(h, e, message) ==
  LET messages == <<message, Str(h[e].message)>> \o fmtErrCauseMessages(h, h[e].cause)
      filteredMessages == SelectSeq(messages, LAMBDA msg : msg.t = "string" /\ Trim(msg.s) # <<>>)
  IN IF Len(filteredMessages) > 0
     THEN Join([i \in 1..Len(filteredMessages) |-> filteredMessages[i].s], S_Arrow)
     ELSE S_UnknownError

\* err(message, cause) of that class
ErrAnyCause(message, cause) ==
  /\ Len(heap) < MaxObjs
  /\ heap' = Append(heap, CtxErrorWithAnyCause(message, cause))
  /\ last' = Call("err", "", Undefined, "", cause, "returned", Ref(Len(heap) + 1), <<>>)
  /\ UNCHANGED <<promises, fm, store>>

\* e.fmtErr(message)
FmtErr(e, message) ==
  /\ InstanceOfCtxError(heap, e)
  /\ last' = Call("fmtErr", "", e, "", message, "returned", Str(fmtErr(heap, e.n, message)), <<>>)
  /\ UNCHANGED <<heap, promises, fm, store>>

PrependMessages == {Undefined, Str(<<" ">>), Str(<<"p">>), Str(<<" ", "p">>)}

NextFmtErr ==
  \/ \E m \in {<<" ">>, <<"B">>}, c \in {Undefined, Str(<<"s">>)} \cup Refs(heap) :
       ErrAnyCause(m, c)
  \/ \E c \in {Undefined} \cup Refs(heap) : ForeignError(S_CustomError, <<"X">>, c)
  \/ \E e \in CtxRefs(heap), p \in PrependMessages : FmtErr(e, p)

SpecFmtErr == Init /\ [][NextFmtErr]_vars

\* The message given to fmtErr is absent or blank.
NoPrepend(message) == message.t # "string" \/ IsBlank(message.s)

\* C25 as stated: fmtErr(p) with a non-blank p is p, " -> " and what fmtErr()
\* returns for the same error; with p absent or blank it is what fmtErr() returns.
C25_PrependThenFmtErr ==
  last.op = "fmtErr" =>
    LET plain == fmtErr(heap, last.recv.n, Undefined)
    IN last.ret = Str(IF NoPrepend(last.arg) THEN plain
                      ELSE last.arg.s \o S_Arrow \o plain)

\* C25 (amended): fmtErr(p) with a non-blank p is p as given, followed by
\* " -> " and what fmtErr() returns when some message of the chain is not
\* blank; it is p alone when every message of the chain is blank (fmtErr()
\* being "Unknown error"). With p absent or blank it is what fmtErr() returns.
C25_PrependThenNonBlankChain ==
  last.op = "fmtErr" =>
    LET own == <<Str(heap[last.recv.n].message)>>
                 \o fmtErrCauseMessages(heap, heap[last.recv.n].cause)
        allBlank == \A i \in 1..Len(own) : IsBlank(own[i].s)
        plain == fmtErr(heap, last.recv.n, Undefined)
    IN /\ allBlank <=> plain = S_UnknownError
       /\ last.ret = Str(IF NoPrepend(last.arg) THEN plain
                         ELSE IF allBlank THEN last.arg.s
                         ELSE last.arg.s \o S_Arrow \o plain)

\* fmtErr("p") was called on an error with a blank message whose cause has a
\* message: the result is "p -> " and the message of the cause.
C25_Witness ==
  /\ last.op = "fmtErr"
  /\ last.arg = Str(<<"p">>)
  /\ IsBlank(heap[last.recv.n].message)
  /\ InstanceOfError(heap, heap[last.recv.n].cause)
  /\ last.ret = Str(<<"p">> \o S_Arrow \o heap[heap[last.recv.n].cause.n].name
                      \o S_ColonSpace \o heap[heap[last.recv.n].cause.n].message)

-----------------------------------------------------------------------------
\* attempt on a function that throws a CtxError carrying context.

RethrowKeys == {"own", "shared"}
RethrowMaps == {[k \in {"own"} |-> Str(<<"t">>)], [k \in {"shared"} |-> Str(<<"d">>)]}

NextRethrow ==
  \/ \E c \in {Undefined} \cup Refs(heap) : Err(<<"A">>, c)
  \/ \E e \in CtxRefs(heap), m \in RethrowMaps : Ctx(e, m)
  \/ \E v \in Refs(heap) : AttemptSync([kind |-> "throw", val |-> v])

SpecRethrow == Init /\ [][NextRethrow]_vars

\* The CtxError links below the error t: its cause and on, for as long as they
\* are CtxErrors.
CtxRunBelow(h, t) ==
  IF InstanceOfCtxError(h, h[t].cause) THEN CtxRun(h, h[t].cause.n) ELSE <<>>

\* C26: when op throws a CtxError t that carries context, attempt(op) returns a
\* new CtxError, distinct from t, whose own context is unset: get and getAll of
\* the result return nothing of t's own context and, of the keys stored on t's
\* causes, what they return through t.
C26_AttemptDropsOwnContext ==
  (AttemptConverted /\ last.arg \in CtxRefs(heap) /\ heap[last.arg.n].context.has) =>
    LET t == last.arg.n
        r == last.ret.n
        below == CtxRunBelow(heap, t)
    IN /\ isErr(heap, last.ret)
       /\ r # t
       /\ ~heap[r].context.has
       /\ heap[t].context.has
       /\ \A k \in RethrowKeys :
            /\ getAll(heap, r, k) = StoredAlong(heap, below, k)
            /\ get(heap, r, k) =
                 IF DefinedHolders(heap, below, k) = {} THEN Undefined
                 ELSE StoredAt(heap, below, Deepest(DefinedHolders(heap, below, k)), k)
            /\ Holders(heap, below, k) = {} =>
                 get(heap, r, k) = Undefined /\ getAll(heap, r, k) = <<>>

\* attempt returned the copy of a thrown CtxError that stores "own" itself and
\* whose cause stores "shared": the copy gives nothing for "own" and the value
\* of the cause for "shared".
C26_Witness ==
  /\ AttemptConverted
  /\ last.arg \in CtxRefs(heap)
  /\ LET t == last.arg.n
         r == last.ret.n
     IN /\ StoresKey(heap[t], "own")
        /\ InstanceOfCtxError(heap, heap[t].cause)
        /\ StoresKey(heap[heap[t].cause.n], "shared")
        /\ ~StoresKey(heap[heap[t].cause.n], "own")
        /\ get(heap, t, "own") = Str(<<"t">>)
        /\ get(heap, r, "own") = Undefined
        /\ getAll(heap, r, "own") = <<>>
        /\ get(heap, r, "shared") = Str(<<"d">>)
        /\ getAll(heap, r, "shared") = <<Str(<<"d">>)>>

-----------------------------------------------------------------------------
\* messageChain of the error attempt makes of a thrown CustomError, and of an
\* err(...) that wraps it.

OwnMessages == {<<"X">>, <<" ", "X">>, <<>>}

NextOwn ==
  \/ \E m \in OwnMessages, c \in {Undefined} \cup Refs(heap) :
       ForeignError(S_CustomError, m, c)
  \/ \E v \in Refs(heap) : AttemptSync([kind |-> "throw", val |-> v])
  \/ \E m \in {<<"A">>, <<>>}, c \in {Undefined} \cup Refs(heap) : Err(m, c)
  \/ \E e \in CtxRefs(heap) : MessageChain(e)

SpecOwn == Init /\ [][NextOwn]_vars

\* The object at index i is a CtxError that attempt made of a thrown error named
\* CustomError: only the conversion gives a CtxError another name than its own.
IsConvertedCustom(h, i) == h[i].cls = "CtxError" /\ h[i].name = S_CustomError

\* "N: M" for the link at index i
NamedSegment(h, i) == h[i].name \o S_ColonSpace \o h[i].message

\* C27 as stated: for the error e that attempt returns from a thrown error named
\* N with message M, e.messageChain begins with M and not with "N: M", and
\* err(m, e).messageChain has "N: M" as the segment of that link.
C27_OwnSegmentHasNoName ==
  last.op = "messageChain" =>
    LET r == last.recv.n
    IN /\ IsConvertedCustom(heap, r) =>
            /\ StartsWith(last.ret.s, heap[r].message)
            /\ ~StartsWith(last.ret.s, NamedSegment(heap, r))
       /\ (heap[r].name = S_CtxError /\ heap[r].cause.t = "ref"
             /\ IsConvertedCustom(heap, heap[r].cause.n)) =>
            LET segments == Split(last.ret.s, S_Arrow)
                k == IF IsBlank(heap[r].message) THEN 1 ELSE 2
            IN Len(segments) >= k /\ segments[k] = NamedSegment(heap, heap[r].cause.n)

\* C27 (amended): for the error e that attempt returns from a thrown error named
\* N with message M, e.messageChain begins with the trimmed M and not with
\* "N:" when M is not blank, and is the chain of e's causes alone (or "Unknown
\* error") when M is blank; err(m, e).messageChain has the trimmed "N: M" as
\* the segment of that link.
C27_OwnSegmentIsTrimmedMessage ==
  last.op = "messageChain" =>
    LET r == last.recv.n
    IN /\ IsConvertedCustom(heap, r) =>
            IF IsBlank(heap[r].message)
            THEN last.ret.s = ChainOfSegments(Tail(LinkSegments(heap, r)))
            ELSE /\ StartsWith(last.ret.s, Trim(heap[r].message))
                 /\ ~StartsWith(last.ret.s, Trim(heap[r].name \o S_ColonSpace))
       /\ (heap[r].name = S_CtxError /\ heap[r].cause.t = "ref"
             /\ IsConvertedCustom(heap, heap[r].cause.n)) =>
            LET segments == Split(last.ret.s, S_Arrow)
                k == IF IsBlank(heap[r].message) THEN 1 ELSE 2
            IN /\ Len(segments) >= k
               /\ segments[k] = Trim(NamedSegment(heap, heap[r].cause.n))

\* messageChain was read on err("A", e), e being what attempt made of a thrown
\* CustomError("X"): the chain is "A -> CustomError: X".
C27_Witness ==
  /\ last.op = "messageChain"
  /\ LET r == last.recv.n
     IN /\ heap[r].name = S_CtxError
        /\ heap[r].message = <<"A">>
        /\ heap[r].cause.t = "ref"
        /\ IsConvertedCustom(heap, heap[r].cause.n)
        /\ heap[heap[r].cause.n].message = <<"X">>
        /\ heap[heap[r].cause.n].cause = Undefined
        /\ last.ret = Str(<<"A">> \o S_Arrow \o S_CustomError \o S_ColonSpace \o <<"X">>)
        /\ messageChain(heap, heap[r].cause.n) = <<"X">>

-----------------------------------------------------------------------------
\* ctx with the context objects told apart: the maps callers pass, the default
\* context a factory holds and the context of each error are objects of the
\* store, and any of them can be passed to ctx.

AliasMaps == {[k \in {"a"} |-> Num(1)], [k \in {"b"} |-> Num(1)]}

NextAlias ==
  \/ \E map \in AliasMaps : NewMap(map)
  \/ \E c \in Refs(heap) : Len(heap) < MaxLinks /\ Err(<<"A">>, c)
  \/ \E d \in DOMAIN store.objs : ErrWithCtxOf(d, <<"A">>, Undefined)
  \/ \E e \in CtxRefs(heap), context \in DOMAIN store.objs : CtxOf(e, context)

SpecAlias == Init /\ [][NextAlias]_vars

\* C28: ctx(m) changes nothing but the receiver's context: the receiver's name,
\* message, cause and stack, every other error, the map m passed in and every
\* other object that existed (the previous context object, the context of other
\* errors, the default context of a factory) are unchanged, and the receiver's
\* context is a new object.
C28_CtxChangesOnlyReceiverContext ==
  [][last'.op = "ctx" =>
       LET n == last'.recv.n
       IN /\ Len(heap') = Len(heap)
          /\ \A i \in DOMAIN heap : i # n => heap'[i] = heap[i]
          /\ heap'[n] = [heap[n] EXCEPT !.context = heap'[n].context]
          /\ \A k \in DOMAIN store.objs : store'.objs[k] = store.objs[k]
          /\ \A i \in DOMAIN store.of : i # n =>
               i \in DOMAIN store'.of /\ store'.of[i] = store.of[i]
          /\ store'.of[n] \notin DOMAIN store.objs
          /\ \A i \in DOMAIN store'.of :
               heap'[i].context = [has |-> TRUE, map |-> store'.objs[store'.of[i]]]]_vars

\* ctx({b: 1}) was called on one of two errors made by the same factory from
\* the default context {a: 1}: the receiver's context is a new object
\* {a: 1, b: 1}, while the other error, the default context and the map passed
\* in are what they were.
C28_Witness ==
  /\ last.op = "ctx"
  /\ LET n == last.recv.n
         a1 == [k \in {"a"} |-> Num(1)]
         b1 == [k \in {"b"} |-> Num(1)]
     IN /\ last.list = <<b1>>
        /\ store.objs[last.arg.n] = b1
        /\ store.of[n] = Len(store.objs)
        /\ heap[n].context.map = [k \in {"a", "b"} |-> Num(1)]
        /\ \E i \in DOMAIN store.of, d \in DOMAIN store.objs :
             /\ i # n
             /\ store.objs[d] = a1
             /\ d \notin {store.of[j] : j \in DOMAIN store.of}
             /\ heap[i].context.map = a1
             /\ store.of[i] # store.of[n]

-----------------------------------------------------------------------------
\* The cause of err(m, c) is c itself.

\* What getAll(key) takes from the own context of o.
OwnEntry(o, key) == IF StoresKey(o, key) THEN <<o.context.map[key]>> ELSE <<>>

\* C29: err(m, c) stores c itself as the cause, making no copy, so that a ctx
\* call made on c after it has been wrapped is visible through the wrapper's get
\* and getAll, whatever ctx calls were made on the wrapper and on c before.
C29_CauseIsShared ==
  [][/\ (last'.op = "err" /\ Truthy(last'.arg)) =>
          /\ Len(heap') = Len(heap) + 1
          /\ heap'[last'.ret.n].cause = last'.arg
          /\ \A i \in DOMAIN heap : heap'[i] = heap[i]
     /\ last'.op = "ctx" =>
          \A w \in DOMAIN heap :
            (heap[w].cls = "CtxError" /\ heap[w].cause = last'.recv) =>
              LET m == last'.list[1]
                  below == CtxRunBelow(heap, last'.recv.n)
              IN \A k \in DOMAIN m :
                   /\ getAll(heap', w, k)
                        = OwnEntry(heap[w], k) \o <<m[k]>> \o StoredAlong(heap, below, k)
                   /\ get(heap', w, k)
                        = IF DefinedHolders(heap, below, k) # {}
                          THEN StoredAt(heap, below, Deepest(DefinedHolders(heap, below, k)), k)
                          ELSE m[k]
     /\ (last.op = "err" /\ last'.op = "ctx" /\ last'.recv = last.arg) =>
          \A k \in DOMAIN last'.list[1] :
            /\ Len(getAll(heap', last.ret.n, k)) >= 1
            /\ getAll(heap', last.ret.n, k)[1] = last'.list[1][k]
     /\ (last'.op = "getAll" /\ InstanceOfCtxError(heap', heap'[last'.recv.n].cause)) =>
          last'.list = OwnEntry(heap'[last'.recv.n], last'.key)
                         \o getAll(heap', heap'[last'.recv.n].cause.n, last'.key)
     /\ (last'.op = "get" /\ InstanceOfCtxError(heap', heap'[last'.recv.n].cause)
           /\ get(heap', heap'[last'.recv.n].cause.n, last'.key) # Undefined) =>
          last'.ret = get(heap', heap'[last'.recv.n].cause.n, last'.key)]_vars

\* ctx was called on c after err(m, c) wrapped it and after the wrapper got a
\* context of its own: the wrapper's getAll holds its own value and then the one
\* just stored on c, and its get returns the latter.
C29_Witness ==
  /\ last.op = "ctx"
  /\ \E w \in DOMAIN heap :
       /\ heap[w].cls = "CtxError"
       /\ heap[w].cause = last.recv
       /\ heap[last.recv.n].cause = Undefined
       /\ StoresKey(heap[w], "shared")
       /\ heap[w].context.map["shared"] # last.list[1]["shared"]
       /\ getAll(heap, w, "shared") = <<heap[w].context.map["shared"], last.list[1]["shared"]>>
       /\ get(heap, w, "shared") = last.list[1]["shared"]

-----------------------------------------------------------------------------
\* get and getAll on the same chains, undefined and falsy values stored.

AgreeValues == {Undefined, Num(0), Str(<<"v">>)}
AgreeMaps == {[k \in {"shared"} |-> v] : v \in AgreeValues}

NextAgree ==
  \/ \E c \in {Undefined} \cup Refs(heap) : ForeignError(S_Error, <<"A">>, c)
  \/ \E c \in {Undefined} \cup Refs(heap) : Err(<<"A">>, c)
  \/ \E e \in CtxRefs(heap), m \in AgreeMaps : Ctx(e, m)
  \/ \E e \in CtxRefs(heap) : Get(e, "shared")
  \/ \E e \in CtxRefs(heap) : GetAll(e, "shared")

SpecAgree == Init /\ [][NextAgree]_vars

\* The last element of values that is not undefined; undefined when there is
\* none.
LastDefined(values) ==
  LET defined == {i \in DOMAIN values : values[i] # Undefined}
  IN IF defined = {} THEN Undefined ELSE values[Deepest(defined)]

\* C30: for every error e and key k, get and getAll agree: get(k) is the last
\* element of getAll(k) that is not undefined, and undefined when getAll(k) is
\* empty or holds undefined only.
C30_GetIsLastDefinedOfGetAll ==
  /\ last.op = "get" =>
       /\ last.ret = LastDefined(getAll(heap, last.recv.n, last.key))
       /\ getAll(heap, last.recv.n, last.key) = <<>> => last.ret = Undefined
  /\ last.op = "getAll" =>
       /\ get(heap, last.recv.n, last.key) = LastDefined(last.list)
       /\ last.list = <<>> => get(heap, last.recv.n, last.key) = Undefined

\* get was called on a chain whose getAll is 0, "v", undefined: it returns "v".
C30_Witness ==
  /\ last.op = "get"
  /\ getAll(heap, last.recv.n, last.key) = <<Num(0), Str(<<"v">>), Undefined>>
  /\ last.ret = Str(<<"v">>)

====
